---------------------------- MODULE Spec2Model ----------------------------
(***************************************************************************)
(* Model of src/multipart.js: the byte scanner and part assembler of       *)
(* multipart.parse, and multipart.getBoundary.                             *)
(*                                                                         *)
(* Bytes are integers 0..255.  A JavaScript string is the sequence of its  *)
(* UTF-16 code units, a Buffer or byte array the sequence of its bytes.    *)
(* The input alphabets are ASCII plus the byte 0xFF (never valid UTF-8).   *)
(***************************************************************************)
EXTENDS Integers, Sequences, FiniteSets

(***************************************************************************)
(* Character codes the code names.                                         *)
(***************************************************************************)
CR == 13
LF == 10
Semicolon == 59
EqualsSign == 61
Colon == 58
Quote == 34
Backslash == 92
Dash == 45
ReplacementChar == 65533

\* "name", "data", "type", "filename": the property names process uses
StrName == <<110, 97, 109, 101>>
StrData == <<100, 97, 116, 97>>
StrType == <<116, 121, 112, 101>>
StrFilename == <<102, 105, 108, 101, 110, 97, 109, 101>>
\* "multipart": UPLOAD_PREFIX, line 8
UPLOAD_PREFIX == <<109, 117, 108, 116, 105, 112, 97, 114, 116>>
\* "undefined": what (undefined + '') evaluates to
StrUndefined == <<117, 110, 100, 101, 102, 105, 110, 101, 100>>
\* "boundary": the substring getBoundary looks for
StrBoundary == <<98, 111, 117, 110, 100, 97, 114, 121>>
\* "true", "false", "null": the JSON literals
StrTrue == <<116, 114, 117, 101>>
StrFalse == <<102, 97, 108, 115, 101>>
StrNull == <<110, 117, 108, 108>>

(***************************************************************************)
(* JavaScript string and array primitives.                                 *)
(***************************************************************************)
Min(a, b) == IF a < b THEN a ELSE b
Max(a, b) == IF a > b THEN a ELSE b

\* String.prototype.split with a one-character separator: never empty.
RECURSIVE Split(_, _)
Split(s, c) ==
    IF \A k \in 1..Len(s) : s[k] # c
    THEN <<s>>
    ELSE LET p == CHOOSE k \in 1..Len(s) : s[k] = c /\ \A j \in 1..(k - 1) : s[j] # c
         IN  <<SubSeq(s, 1, p - 1)>> \o Split(SubSeq(s, p + 1, Len(s)), c)

\* The code units String.prototype.trim strips.
IsSpace(c) == c \in {9, 10, 11, 12, 13, 32, 160, 5760, 8232, 8233, 8239, 8287, 12288, 65279} \/ c \in 8192..8202

RECURSIVE TrimLeft(_)
TrimLeft(s) == IF s # <<>> /\ IsSpace(Head(s)) THEN TrimLeft(Tail(s)) ELSE s

RECURSIVE TrimRight(_)
TrimRight(s) == IF s # <<>> /\ IsSpace(s[Len(s)]) THEN TrimRight(SubSeq(s, 1, Len(s) - 1)) ELSE s

Trim(s) == TrimRight(TrimLeft(s))

\* String.prototype.indexOf(t) >= 0
Contains(s, t) == \E k \in 0..(Len(s) - Len(t)) : SubSeq(s, k + 1, k + Len(t)) = t

\* Array.prototype.slice(0, e): a negative end counts from the end.
Slice0(arr, e) ==
    LET n == Len(arr)
        e2 == IF e < 0 THEN Max(n + e, 0) ELSE Min(e, n)
    IN  SubSeq(arr, 1, e2)

\* Buffer.prototype.toString(): UTF-8 decoding.  An ASCII byte is its own code
\* unit; the byte 0xFF is never valid UTF-8 and decodes to U+FFFD.  Defined on
\* sequences of ASCII bytes and 0xFF bytes, the bytes the inputs are made of.
ToString(buf) == [k \in 1..Len(buf) |-> IF buf[k] < 128 THEN buf[k] ELSE ReplacementChar]

\* Buffer.from(array): each element taken modulo 256.
BufferFrom(arr) == [k \in 1..Len(arr) |-> arr[k] % 256]

(***************************************************************************)
(* JavaScript values and objects.                                          *)
(* A value is [t, v]: t its type, v its text (the digits of a number, the  *)
(* bytes of a buffer).  An object is the sequence of its own enumerable    *)
(* properties <<key, value>> in creation order.                            *)
(***************************************************************************)
JsString(s) == [t |-> "string", v |-> s]
JsBuffer(b) == [t |-> "buffer", v |-> b]
JsNumber(digits) == [t |-> "number", v |-> digits]
JsTrue == [t |-> "boolean", v |-> StrTrue]
JsFalse == [t |-> "boolean", v |-> StrFalse]
JsNull == [t |-> "null", v |-> StrNull]
JsUndefined == [t |-> "undefined", v |-> <<>>]
JsObject(o) == [t |-> "object", v |-> o]
JsArray(a) == [t |-> "array", v |-> a]
JsFunction(fname) == [t |-> "function", v |-> fname]
\* Object.prototype, the prototype of every object made by {} or JSON.parse.
JsObjectPrototype == [t |-> "Object.prototype", v |-> <<>>]
JsArrayPrototype == [t |-> "Array.prototype", v |-> <<>>]
\* The k-th Part of the request at hand: the object itself, not a copy of it.
JsPart(k) == [t |-> "part", v |-> <<k>>]

\* What `if (x)` tests.
Truthy(val) ==
    CASE val.t = "string"  -> val.v # <<>>
      [] val.t = "number"  -> val.v # <<48>>
      [] val.t = "boolean" -> val = JsTrue
      [] val.t = "null"    -> FALSE
      [] OTHER             -> TRUE

HasProp(o, key) == \E k \in 1..Len(o) : o[k][1] = key

\* o[key], read only where HasProp(o, key).
Get(o, key) == o[CHOOSE k \in 1..Len(o) : o[k][1] = key][2]

\* a < b for two numbers written in digits without leading zeros.
IndexLess(a, b) ==
    \/ Len(a) < Len(b)
    \/ /\ Len(a) = Len(b)
       /\ \E p \in 1..Len(a) : a[p] < b[p] /\ \A j \in 1..(p - 1) : a[j] = b[j]

\* An array index: the canonical text of an integer from 0 to 2^32 - 2.  The
\* own properties of an object are ordered with the array indices first in
\* ascending order, the other keys after them in creation order.
IsArrayIndex(key) ==
    /\ key # <<>>
    /\ \A k \in 1..Len(key) : key[k] \in 48..57
    /\ Len(key) = 1 \/ key[1] # 48
    /\ ~IndexLess(<<52, 50, 57, 52, 57, 54, 55, 50, 57, 52>>, key)

\* Object.defineProperty(o, key, {value, writable, enumerable, configurable}):
\* an existing key keeps its place and takes the value, a new key takes its
\* place in the order of the own properties.
DefineProperty(o, key, val) ==
    IF HasProp(o, key)
    THEN [k \in 1..Len(o) |-> IF o[k][1] = key THEN <<key, val>> ELSE o[k]]
    ELSE IF IsArrayIndex(key)
         THEN LET before == {k \in 1..Len(o) : IsArrayIndex(o[k][1]) /\ IndexLess(o[k][1], key)}
                  p == IF before = {} THEN 0 ELSE CHOOSE k \in before : \A j \in before : j <= k
              IN  SubSeq(o, 1, p) \o <<<<key, val>>>> \o SubSeq(o, p + 1, Len(o))
    ELSE Append(o, <<key, val>>)

\* A result that is a value or a thrown exception.
Ok(val) == [ok |-> TRUE, v |-> val]
Threw == [ok |-> FALSE, v |-> <<>>]

\* An array element or undefined (arr[k], k counted from 0).
Undefined == [def |-> FALSE, v |-> <<>>]
At(arr, k) == IF k < Len(arr) THEN [def |-> TRUE, v |-> arr[k + 1]] ELSE Undefined

IsDigits(s) == s # <<>> /\ \A k \in 1..Len(s) : s[k] \in 48..57

(***************************************************************************)
(* Numbers.  A number is an IEEE 754 double; a number value holds the text *)
(* String(x) gives for it.  The arithmetic is done on sequences of decimal *)
(* digits and of bits, most significant first.                             *)
(***************************************************************************)
\* A function written [k \in 1..n |-> e] is made a sequence by \o <<>>.
Zeros(n) == [k \in 1..n |-> 0] \o <<>>
AnyNonZero(d) == \E k \in 1..Len(d) : d[k] # 0

\* The number of zeros d begins with.
LeadingZeros(d) ==
    IF ~AnyNonZero(d) THEN Len(d)
    ELSE (CHOOSE k \in 1..Len(d) : d[k] # 0 /\ \A j \in 1..(k - 1) : d[j] = 0) - 1

StripZeros(d) == SubSeq(d, LeadingZeros(d) + 1, Len(d))

StripTrailingZeros(d) ==
    IF ~AnyNonZero(d) THEN <<>>
    ELSE SubSeq(d, 1, CHOOSE k \in 1..Len(d) : d[k] # 0 /\ \A j \in (k + 1)..Len(d) : d[j] = 0)

\* d divided by two, in the same number of digits.
Half(d) == [k \in 1..Len(d) |-> ((IF k > 1 THEN d[k - 1] % 2 ELSE 0) * 10 + d[k]) \div 2] \o <<>>

\* The carry out of doubling d.
Carry(d) == IF d # <<>> /\ d[1] >= 5 THEN 1 ELSE 0

\* 2d + b in the same number of digits, the carry dropped.
Double(d, b) ==
    [k \in 1..Len(d) |->
        (2 * d[k] + (IF k < Len(d) THEN (IF d[k + 1] >= 5 THEN 1 ELSE 0) ELSE b)) % 10] \o <<>>

\* 2d + b.
DoubleX(d, b) ==
    IF d = <<>> THEN (IF b = 1 THEN <<1>> ELSE <<>>)
    ELSE (IF Carry(d) = 1 THEN <<1>> ELSE <<>>) \o Double(d, b)

\* 5d.
Times5(d) == StripZeros(Half(<<0>> \o d \o <<0>>))

\* d + 1 in decimal.
Increment(d) ==
    IF \A k \in 1..Len(d) : d[k] = 9 THEN <<1>> \o Zeros(Len(d))
    ELSE LET p == CHOOSE k \in 1..Len(d) : d[k] # 9 /\ \A j \in (k + 1)..Len(d) : d[j] = 9
         IN  [k \in 1..Len(d) |-> IF k < p THEN d[k] ELSE IF k = p THEN d[k] + 1 ELSE 0] \o <<>>

\* -1, 0 or 1 as x < y, x = y or x > y, for digits without leading zeros.
CompareStripped(x, y) ==
    IF Len(x) # Len(y) THEN (IF Len(x) < Len(y) THEN -1 ELSE 1)
    ELSE IF x = y THEN 0
    ELSE LET p == CHOOSE k \in 1..Len(x) : x[k] # y[k] /\ \A j \in 1..(k - 1) : x[j] = y[j]
         IN  IF x[p] < y[p] THEN -1 ELSE 1

\* -1, 0 or 1 as a < b, a = b or a > b.
Compare(a, b) == CompareStripped(StripZeros(a), StripZeros(b))

\* b + 1 and b - 1 in binary (b > 0 for the latter).
IncrementBits(b) ==
    IF \A k \in 1..Len(b) : b[k] = 1 THEN <<1>> \o Zeros(Len(b))
    ELSE LET p == CHOOSE k \in 1..Len(b) : b[k] = 0 /\ \A j \in (k + 1)..Len(b) : b[j] = 1
         IN  [k \in 1..Len(b) |-> IF k < p THEN b[k] ELSE IF k = p THEN 1 ELSE 0] \o <<>>

DecrementBits(b) ==
    LET p == CHOOSE k \in 1..Len(b) : b[k] = 1 /\ \A j \in (k + 1)..Len(b) : b[j] = 0
    IN  [k \in 1..Len(b) |-> IF k < p THEN b[k] ELSE IF k = p THEN 0 ELSE 1] \o <<>>

\* Long runs of steps are split in two halves, so that a run of n steps nests
\* about log2(n) deep; the test on the first half's result makes it a value
\* before the second half starts.

\* st.x halved n times, the bits that fall off put in front of st.bits.
RECURSIVE HalveAll(_, _)
HalveAll(st, n) ==
    IF n = 0 THEN st
    ELSE IF n = 1
         THEN [x |-> Half(st.x), bits |-> <<st.x[Len(st.x)] % 2>> \o st.bits]
    ELSE LET y == HalveAll(st, n \div 2)
         IN  IF Len(y.bits) = 0 THEN y ELSE HalveAll(y, n - n \div 2)

\* The bits of the integer d (4 bits a digit are enough).
IntBits(d) ==
    IF d = <<>> THEN <<>>
    ELSE StripZeros(HalveAll([x |-> d, bits |-> <<>>], 4 * Len(d)).bits)

\* ((2d + b[1]) * 2 + b[2]) * 2 ... for the bits b.
RECURSIVE DoubleAll(_, _)
DoubleAll(d, b) ==
    IF b = <<>> THEN d
    ELSE IF Len(b) = 1 THEN DoubleX(d, b[1])
    ELSE LET y == DoubleAll(d, SubSeq(b, 1, Len(b) \div 2))
         IN  IF Len(y) = 0 THEN DoubleAll(<<>>, SubSeq(b, Len(b) \div 2 + 1, Len(b)))
             ELSE DoubleAll(y, SubSeq(b, Len(b) \div 2 + 1, Len(b)))

\* The decimal digits of the integer with the given bits.
BitsToDigits(b) == DoubleAll(<<>>, b)

\* The fraction 0.(st.f) doubled n times, the bits that come out put behind
\* st.bits.
RECURSIVE DoubleFrac(_, _)
DoubleFrac(st, n) ==
    IF n = 0 THEN st
    ELSE IF n = 1 THEN [f |-> Double(st.f, 0), bits |-> Append(st.bits, Carry(st.f))]
    ELSE LET y == DoubleFrac(st, n \div 2)
         IN  IF Len(y.bits) = 0 THEN y ELSE DoubleFrac(y, n - n \div 2)

\* The first n bits of the fraction 0.f (bits), and what is left of it (f).
FracBits(f, n) == DoubleFrac([f |-> f, bits |-> <<>>], n)

\* A double: zero, infinity, or m * 2^e with m in at most 53 bits.
DoubleZero == [kind |-> "zero", m |-> <<>>, e |-> 0]
DoubleInfinity == [kind |-> "infinity", m |-> <<>>, e |-> 0]
Finite(m, e) ==
    IF ~AnyNonZero(m) THEN DoubleZero
    ELSE IF e > 971 THEN DoubleInfinity
    ELSE [kind |-> "finite", m |-> m, e |-> e]

\* m * 2^e after the rounding has added one to m.
Carried(m, e) == IF Len(m) > 53 THEN Finite(SubSeq(m, 1, 53), e + 1) ELSE Finite(m, e)

\* m * 2^e rounded to nearest, ties to even: guard is the first bit left out,
\* sticky tells whether anything but zeros follows it.
Round(m, e, guard, sticky) ==
    IF guard = 1 /\ (sticky \/ m[Len(m)] = 1) THEN Carried(IncrementBits(m), e) ELSE Finite(m, e)

\* The last 53 bits of b.
Last53(b) == IF Len(b) >= 53 THEN SubSeq(b, Len(b) - 52, Len(b)) ELSE b

\* The integer and the fraction of d * 10^p.
IntPart(d, p) ==
    IF p >= 0 THEN d \o Zeros(p)
    ELSE IF -p >= Len(d) THEN <<>>
    ELSE SubSeq(d, 1, Len(d) + p)
FracPart(d, p) ==
    IF p >= 0 THEN <<>>
    ELSE IF -p >= Len(d) THEN Zeros(-p - Len(d)) \o d
    ELSE SubSeq(d, Len(d) + p + 1, Len(d))

\* The bits of the fraction to work out when the integer has L bits: one more
\* than the bits kept (a fraction with z zeros after the point begins with
\* fewer than 4 (z + 1) zero bits).
BitsWanted(L, frac) ==
    IF L >= 54 THEN 0
    ELSE IF L >= 1 THEN 54 - L
    ELSE Min(4 * (LeadingZeros(frac) + 1) + 54, 1075)

\* The bits of the fraction that are kept: those that fill the 53 bits, down
\* to 2^-1074 at most.
BitsKept(L, bits) ==
    IF L >= 53 THEN 0
    ELSE IF L >= 1 THEN 53 - L
    ELSE Min(LeadingZeros(bits) + 53, 1074)

\* The double nearest to the integer with bits ib (54 at least) plus 0.frac.
RoundInteger(ib, frac) ==
    Round(SubSeq(ib, 1, 53), Len(ib) - 53, ib[54],
          AnyNonZero(SubSeq(ib, 55, Len(ib))) \/ AnyNonZero(frac))

\* The double nearest to the integer with bits ib (53 at most) plus the
\* fraction with bits fb.bits and remainder fb.f, nf of its bits being kept.
RoundFraction(ib, fb, nf) ==
    Round(Last53(ib \o SubSeq(fb.bits, 1, nf)), -nf, fb.bits[nf + 1],
          AnyNonZero(SubSeq(fb.bits, nf + 2, Len(fb.bits))) \/ AnyNonZero(fb.f))

RoundParts(ib, frac, fb) ==
    IF Len(ib) >= 54 THEN RoundInteger(ib, frac)
    ELSE RoundFraction(ib, fb, BitsKept(Len(ib), fb.bits))

NearestDouble(ib, frac) == RoundParts(ib, frac, FracBits(frac, BitsWanted(Len(ib), frac)))

\* The double nearest to d * 10^p (ties to even), d being digits without
\* leading or trailing zeros.
ToDouble(d, p) ==
    IF Len(d) + p >= 310 THEN DoubleInfinity
    ELSE IF Len(d) + p <= -324 THEN DoubleZero
    ELSE NearestDouble(IntBits(IntPart(d, p)), FracPart(d, p))

\* d * 5^n.
RECURSIVE Times5All(_, _)
Times5All(d, n) ==
    IF n = 0 THEN d
    ELSE IF n = 1 THEN Times5(d)
    ELSE LET y == Times5All(d, n \div 2)
         IN  IF Len(y) = 0 THEN y ELSE Times5All(y, n - n \div 2)

\* d * 2^s for s >= 0, d * 5^(-s) for s < 0.
Scale(d, s) == IF s >= 0 THEN DoubleAll(d, Zeros(s)) ELSE Times5All(d, -s)

\* c is no zero and lies between lo and hi (the ends included when inclusive).
Inside(lo, hi, inclusive, c) ==
    /\ AnyNonZero(c)
    /\ Compare(lo, c) < (IF inclusive THEN 1 ELSE 0)
    /\ Compare(c, hi) < (IF inclusive THEN 1 ELSE 0)

\* x, written in w digits, with its last j digits cut off, and that plus 10^j.
CutDown(x, w, j) == SubSeq(x, 1, w - j) \o Zeros(j)
CutUp(x, w, j) == Increment(SubSeq(x, 1, w - j)) \o Zeros(j)

\* The one of the two that is nearer to x, the even one when x is half way.
Nearer(x, w, j, toHalf) ==
    IF toHalf < 0 THEN CutDown(x, w, j)
    ELSE IF toHalf > 0 THEN CutUp(x, w, j)
    ELSE IF x[w - j] % 2 = 0 THEN CutDown(x, w, j) ELSE CutUp(x, w, j)

\* The multiple of 10^j nearest to x that lies between lo and hi, for the
\* largest j that has one; x, lo and hi are written in w digits.
RECURSIVE ShortestBetween(_, _, _, _, _, _)
Candidate10(x, lo, hi, w, inclusive, j, downIn, upIn) ==
    IF downIn /\ upIn
    THEN Nearer(x, w, j, IF j = 0 THEN -1 ELSE Compare(SubSeq(x, w - j + 1, w), <<5>> \o Zeros(j - 1)))
    ELSE IF downIn THEN CutDown(x, w, j)
    ELSE IF upIn THEN CutUp(x, w, j)
    ELSE ShortestBetween(x, lo, hi, w, inclusive, j - 1)

ShortestBetween(x, lo, hi, w, inclusive, j) ==
    Candidate10(x, lo, hi, w, inclusive, j,
                Inside(lo, hi, inclusive, CutDown(x, w, j)),
                Inside(lo, hi, inclusive, CutUp(x, w, j)))

\* d written in w digits.
Pad(d, w) == Zeros(w - Len(d)) \o d

\* The digits of c without its zeros, and the exponent n of 0.digits * 10^n,
\* c being counted in units of 10^s for s < 0.
DigitsAndExponent(c, s) ==
    [digits |-> StripTrailingZeros(c), n |-> Len(c) + (IF s < 0 THEN s ELSE 0)]

\* The shortest decimal in the interval lo..hi around x.
ShortestIn(x, lo, hi, inclusive, s) ==
    DigitsAndExponent(
        StripZeros(ShortestBetween(Pad(x, Len(hi) + 1), Pad(lo, Len(hi) + 1), Pad(hi, Len(hi) + 1),
                                   Len(hi) + 1, inclusive, Len(hi) + 1)),
        s)

\* The shortest decimal that reads back as the double m * 2^e, m without
\* leading zeros: the double and the midpoints to its neighbours are counted
\* in units of 2^(e - 2); the neighbour below is half as far when m is 2^52.
ShortestOf(m, e) ==
    ShortestIn(Scale(BitsToDigits(m \o <<0, 0>>), e - 2),
               Scale(BitsToDigits(DecrementBits(m) \o
                         (IF Len(m) = 53 /\ ~AnyNonZero(Tail(m)) /\ e > -1074 THEN <<1, 1>> ELSE <<1, 0>>)),
                     e - 2),
               Scale(BitsToDigits(m \o <<1, 0>>), e - 2),
               m[Len(m)] = 0,
               e - 2)

Shortest(m53, e) == ShortestOf(StripZeros(m53), e)

\* The decimal digits of a natural number, as text.
RECURSIVE NatToString(_)
NatToString(n) == IF n < 10 THEN <<48 + n>> ELSE Append(NatToString(n \div 10), 48 + (n % 10))

\* Number::toString(x) for x = 0.digits * 10^n, negated when neg.
NumberToString(neg, digits, n) ==
    LET k == Len(digits)
        s == [j \in 1..k |-> 48 + digits[j]]
        zero == [j \in 1..(IF n - k > 0 THEN n - k ELSE IF n < 0 THEN -n ELSE 0) |-> 48]
        body == IF k <= n /\ n <= 21 THEN s \o zero
                ELSE IF 0 < n /\ n <= 21 THEN SubSeq(s, 1, n) \o <<46>> \o SubSeq(s, n + 1, k)
                ELSE IF -6 < n /\ n <= 0 THEN <<48, 46>> \o zero \o s
                ELSE (IF k = 1 THEN s ELSE <<s[1], 46>> \o Tail(s))
                     \o <<101, IF n - 1 >= 0 THEN 43 ELSE 45>>
                     \o NatToString(IF n - 1 >= 0 THEN n - 1 ELSE 1 - n)
    IN  (IF neg THEN <<Dash>> ELSE <<>>) \o body

\* 'Infinity'
StrInfinity == <<73, 110, 102, 105, 110, 105, 116, 121>>

\* The value of a natural number written in digits, capped at 10^9.
RECURSIVE DigitsValue(_)
DigitsValue(d) ==
    IF d = <<>> THEN 0
    ELSE IF Len(d) > 9 THEN 1000000000
    ELSE 10 * DigitsValue(SubSeq(d, 1, Len(d) - 1)) + d[Len(d)]

NatValue(s) == DigitsValue(StripZeros([k \in 1..Len(s) |-> s[k] - 48]))

\* The index of the first character of s that is in set, Len(s) + 1 if none.
IndexOfAny(s, set) ==
    IF \E k \in 1..Len(s) : s[k] \in set
    THEN CHOOSE k \in 1..Len(s) : s[k] \in set /\ \A j \in 1..(k - 1) : s[j] \notin set
    ELSE Len(s) + 1

\* The parts of a JSON number text: -? int frac? exp?, with int = 0 or a
\* digit 1-9 followed by digits, frac = . digits, exp = e or E, an optional
\* sign, digits.  ok is false when the text is no number.
NumberOf(neg, int, hasDot, frac, hasExp, expNeg, expDigits) ==
    [ok |-> /\ IsDigits(int) /\ (Len(int) = 1 \/ int[1] # 48)
            /\ hasDot => IsDigits(frac)
            /\ hasExp => IsDigits(expDigits),
     neg |-> neg, int |-> int, frac |-> frac,
     exp |-> IF ~hasExp THEN 0 ELSE IF expNeg THEN -NatValue(expDigits) ELSE NatValue(expDigits)]

MantissaAndExponent(neg, mant, hasExp, exp) ==
    NumberOf(neg,
             SubSeq(mant, 1, IndexOfAny(mant, {46}) - 1),
             IndexOfAny(mant, {46}) <= Len(mant),
             SubSeq(mant, IndexOfAny(mant, {46}) + 1, Len(mant)),
             hasExp,
             exp # <<>> /\ exp[1] = 45,
             IF exp # <<>> /\ exp[1] \in {43, 45} THEN Tail(exp) ELSE exp)

Unsigned(neg, abs) ==
    MantissaAndExponent(neg,
                        SubSeq(abs, 1, IndexOfAny(abs, {101, 69}) - 1),
                        IndexOfAny(abs, {101, 69}) <= Len(abs),
                        SubSeq(abs, IndexOfAny(abs, {101, 69}) + 1, Len(abs)))

NumberParts(s) == IF s # <<>> /\ s[1] = Dash THEN Unsigned(TRUE, Tail(s)) ELSE Unsigned(FALSE, s)

\* String(x) for the double x, negated when neg.
DoubleText(neg, x) ==
    IF x.kind = "infinity" THEN (IF neg THEN <<Dash>> ELSE <<>>) \o StrInfinity
    ELSE IF x.kind = "zero" THEN <<48>>
    ELSE NumberToString(neg, Shortest(x.m, x.e).digits, Shortest(x.m, x.e).n)

\* String(x) for x the double nearest to d * 10^p, d being digits without
\* leading or trailing zeros.  Digits that are at most 15, within the normal
\* range, are the shortest decimal of their own double.
DecimalText(neg, d, p) ==
    IF d = <<>> THEN <<48>>
    ELSE IF Len(d) <= 15 /\ -306 <= Len(d) + p /\ Len(d) + p <= 308
         THEN NumberToString(neg, d, Len(d) + p)
    ELSE DoubleText(neg, ToDouble(d, p))

\* The digits of a number text: the text without point and exponent.
AllDigits(parts) == [k \in 1..(Len(parts.int) + Len(parts.frac)) |->
                        (IF k <= Len(parts.int) THEN parts.int[k] ELSE parts.frac[k - Len(parts.int)]) - 48]

\* String(JSON.parse(s)) for a JSON number text s.
NumberText(parts) ==
    DecimalText(parts.neg,
                StripTrailingZeros(StripZeros(AllDigits(parts))),
                parts.exp - Len(parts.frac)
                    + (Len(StripZeros(AllDigits(parts))) - Len(StripTrailingZeros(StripZeros(AllDigits(parts))))))

(***************************************************************************)
(* JSON.parse, line 46.                                                    *)
(***************************************************************************)
\* The value of a hexadecimal digit, -1 for any other character.
HexValue(c) ==
    IF c \in 48..57 THEN c - 48
    ELSE IF c \in 97..102 THEN c - 87
    ELSE IF c \in 65..70 THEN c - 55
    ELSE -1

\* The number of backslashes that stand in a row just before index k.
BackslashesBefore(s, k) ==
    LET others == {j \in 1..(k - 1) : s[j] # Backslash}
    IN  IF others = {} THEN k - 1 ELSE k - 1 - (CHOOSE j \in others : \A m \in others : m <= j)

\* A backslash that starts an escape, and a character that belongs to an
\* escape started before it (the letter after the backslash, the four
\* characters after \u).
EscapeAt(s, k) == s[k] = Backslash /\ BackslashesBefore(s, k) % 2 = 0
Escaped(s, k) ==
    \/ k > 1 /\ EscapeAt(s, k - 1)
    \/ \E j \in 2..5 : k - j >= 1 /\ EscapeAt(s, k - j) /\ s[k - j + 1] = 117

\* The character the escape at k, or the plain character at k, stands for.
Unescaped(s, k) ==
    IF s[k] # Backslash THEN s[k]
    ELSE IF s[k + 1] = 117                           \* \uXXXX
         THEN 4096 * HexValue(s[k + 2]) + 256 * HexValue(s[k + 3])
              + 16 * HexValue(s[k + 4]) + HexValue(s[k + 5])
    ELSE CASE s[k + 1] = 98  -> 8
           [] s[k + 1] = 102 -> 12
           [] s[k + 1] = 110 -> 10
           [] s[k + 1] = 114 -> 13
           [] s[k + 1] = 116 -> 9
           [] OTHER          -> s[k + 1]

\* The plain character or the escape at k is well formed: no quote and no
\* control character, a known letter after the backslash, four hexadecimal
\* digits after \u.
WellFormedAt(s, k) ==
    IF s[k] # Backslash THEN s[k] # Quote /\ s[k] >= 32
    ELSE /\ k + 1 <= Len(s)
         /\ \/ s[k + 1] \in {Quote, Backslash, 47, 98, 102, 110, 114, 116}
            \/ /\ s[k + 1] = 117
               /\ k + 5 <= Len(s)
               /\ \A j \in 2..5 : HexValue(s[k + j]) >= 0

\* The characters of a JSON string, given the text between its quotes and
\* the indices where its plain characters and its escapes start: a quote, a
\* control character and a malformed escape are errors.
UnescapeFrom(s, starts) ==
    IF \A k \in starts : WellFormedAt(s, k)
    THEN Ok([n \in 1..Cardinality(starts) |->
                Unescaped(s, CHOOSE k \in starts : Cardinality({j \in starts : j < k}) = n - 1)] \o <<>>)
    ELSE Threw

Unescape(s) == UnescapeFrom(s, {k \in 1..Len(s) : ~Escaped(s, k)})

\* The white space of JSON, and the index of the first character at or after
\* i that is none (Len(s) + 1 when there is none).
JsonSpace == {32, 9, 10, 13}
SkipSpace(s, i) ==
    IF \E k \in i..Len(s) : s[k] \notin JsonSpace
    THEN CHOOSE k \in i..Len(s) : s[k] \notin JsonSpace /\ \A j \in i..(k - 1) : s[j] \in JsonSpace
    ELSE Len(s) + 1

\* What a step of the parser gives: a value and the index after it, or a
\* syntax error.
Parsed(val, next) == [ok |-> TRUE, v |-> val, next |-> next]
SyntaxError == [ok |-> FALSE, v |-> <<>>, next |-> 0]

\* A quote that ends a string: one with an even number of backslashes before.
ClosingQuote(s, k) == s[k] = Quote /\ BackslashesBefore(s, k) % 2 = 0

\* The string between the quotes at i and at e: its characters.
StringBetween(r, e) == IF r.ok THEN Parsed(r.v, e + 1) ELSE SyntaxError

\* The string that starts with the quote at index i.
ParseString(s, i) ==
    IF ~\E k \in (i + 1)..Len(s) : ClosingQuote(s, k) THEN SyntaxError
    ELSE LET e == CHOOSE k \in (i + 1)..Len(s) :
                      ClosingQuote(s, k) /\ \A j \in (i + 1)..(k - 1) : ~ClosingQuote(s, j)
         IN  StringBetween(Unescape(SubSeq(s, i + 1, e - 1)), e)

\* The string value a parsed string is.
StringValue(r) == IF r.ok THEN Parsed(JsString(r.v), r.next) ELSE SyntaxError

\* The characters a number is written with, and the index after the run of
\* them that starts at i.
NumberChars == (48..57) \cup {43, 45, 46, 69, 101}
NumberEnd(s, i) ==
    IF \E k \in i..Len(s) : s[k] \notin NumberChars
    THEN CHOOSE k \in i..Len(s) : s[k] \notin NumberChars /\ \A j \in i..(k - 1) : s[j] \in NumberChars
    ELSE Len(s) + 1

\* The number with the given parts that ends before index e.
NumberValue(parts, e) ==
    IF parts.ok THEN Parsed(JsNumber(NumberText(parts)), e) ELSE SyntaxError

\* s has the text t at index i.
HasAt(s, i, t) == i + Len(t) - 1 <= Len(s) /\ SubSeq(s, i, i + Len(t) - 1) = t

\* The value that starts at index i; the elements of an array after '[' or
\* ',', acc being the elements before; the members of an object after '{' or
\* ',', acc being the properties before.  A key that comes twice keeps the
\* later value; '__proto__' is a key as any other.
RECURSIVE ParseValue(_, _), ParseElements(_, _, _), ParseMembers(_, _, _)

\* The element r has been read: ',' and more elements, or ']'.
AfterElement(s, r, acc) ==
    IF ~r.ok THEN SyntaxError
    ELSE LET j == SkipSpace(s, r.next)
         IN  IF j > Len(s) THEN SyntaxError
             ELSE IF s[j] = 44 THEN ParseElements(s, SkipSpace(s, j + 1), Append(acc, r.v))
             ELSE IF s[j] = 93 THEN Parsed(JsArray(Append(acc, r.v)), j + 1)
             ELSE SyntaxError

\* The member key: r has been read: ',' and more members, or '}'.
AfterMember(s, key, r, acc) ==
    IF ~r.ok THEN SyntaxError
    ELSE LET j == SkipSpace(s, r.next)
         IN  IF j > Len(s) THEN SyntaxError
             ELSE IF s[j] = 44
                  THEN ParseMembers(s, SkipSpace(s, j + 1), DefineProperty(acc, key, r.v))
             ELSE IF s[j] = 125 THEN Parsed(JsObject(DefineProperty(acc, key, r.v)), j + 1)
             ELSE SyntaxError

\* The key of a member has been read: ':' and the value of the member.
AfterKey(s, key, acc) ==
    IF ~key.ok THEN SyntaxError
    ELSE LET c == SkipSpace(s, key.next)
         IN  IF c > Len(s) THEN SyntaxError
             ELSE IF s[c] # Colon THEN SyntaxError
             ELSE AfterMember(s, key.v, ParseValue(s, SkipSpace(s, c + 1)), acc)

ParseValue(s, i) ==
    IF i > Len(s) THEN SyntaxError
    ELSE IF s[i] = Quote THEN StringValue(ParseString(s, i))
    ELSE IF s[i] = 91                                     \* [
         THEN IF HasAt(s, SkipSpace(s, i + 1), <<93>>)
              THEN Parsed(JsArray(<<>>), SkipSpace(s, i + 1) + 1)
              ELSE ParseElements(s, SkipSpace(s, i + 1), <<>>)
    ELSE IF s[i] = 123                                    \* {
         THEN IF HasAt(s, SkipSpace(s, i + 1), <<125>>)
              THEN Parsed(JsObject(<<>>), SkipSpace(s, i + 1) + 1)
              ELSE ParseMembers(s, SkipSpace(s, i + 1), <<>>)
    ELSE IF HasAt(s, i, StrTrue) THEN Parsed(JsTrue, i + 4)
    ELSE IF HasAt(s, i, StrFalse) THEN Parsed(JsFalse, i + 5)
    ELSE IF HasAt(s, i, StrNull) THEN Parsed(JsNull, i + 4)
    ELSE NumberValue(NumberParts(SubSeq(s, i, NumberEnd(s, i) - 1)), NumberEnd(s, i))

ParseElements(s, i, acc) == AfterElement(s, ParseValue(s, i), acc)

ParseMembers(s, i, acc) ==
    IF i > Len(s) \/ s[i] # Quote THEN SyntaxError
    ELSE AfterKey(s, ParseString(s, i), acc)

\* The value r is the whole text but for white space.
WholeText(s, r) == IF r.ok /\ SkipSpace(s, r.next) > Len(s) THEN Ok(r.v) ELSE Threw

\* JSON.parse(s): the value s is the text of, white space around it allowed;
\* a SyntaxError for every other text.
JSONParse(s) == WholeText(s, ParseValue(s, SkipSpace(s, 1)))

(***************************************************************************)
(* process (the part assembler), lines 36-103.                             *)
(***************************************************************************)
\* The object {a: b} of lines 47-56, b being what JSON.parse gave.
ObjOf(a, b) == IF ~b.ok THEN Threw ELSE Ok(DefineProperty(<<>>, a, b.v))

\* obj(str), lines 43-57: str is a header segment or undefined.
Obj(str) ==
    IF ~str.def THEN Threw                                       \* undefined.split
    ELSE IF Len(Split(str.v, EqualsSign)) < 2 THEN Threw        \* undefined.trim
    ELSE ObjOf(Trim(Split(str.v, EqualsSign)[1]), JSONParse(Trim(Split(str.v, EqualsSign)[2])))

\* Lines 77-100: the file with the name of fileField, the type and the data.
FileOf(part, file, fileField, infoParts) ==
    IF ~file.ok \/ ~fileField.ok THEN Threw
    ELSE IF Len(infoParts) < 2 THEN Threw                       \* undefined.trim
    ELSE Ok(DefineProperty(
             DefineProperty(
                 IF HasProp(fileField.v, StrName) /\ Truthy(Get(fileField.v, StrName))
                 THEN DefineProperty(file.v, StrName, Get(fileField.v, StrName))
                 ELSE file.v,
                 StrType, JsString(Trim(infoParts[2]))),
             StrData, JsBuffer(BufferFrom(part.part))))

\* The file branch of process, lines 74-102.
ProcessFile(part, hdr) == FileOf(part, Obj(At(hdr, 2)), Obj(At(hdr, 1)), Split(part.info, Colon))

\* Lines 64-71: the field with its data.
FieldOf(part, field) ==
    IF ~field.ok THEN Threw
    ELSE Ok(DefineProperty(field.v, StrData, JsString(part.fieldInfo)))

\* The field branch of process, lines 61-72.
ProcessField(part, hdr) == FieldOf(part, Obj(At(hdr, 1)))

\* process(part), lines 36-103: part is [header, info, part, fieldInfo].
Process(part) ==
    LET hdr == Split(part.header, Semicolon)
    IN  IF part.fieldInfo # <<>> THEN ProcessField(part, hdr) ELSE ProcessFile(part, hdr)

(***************************************************************************)
(* The inputs of parse: bodies built from boundary lines, header lines and *)
(* payloads, and the boundary argument.                                    *)
(***************************************************************************)
MaxSegs == 2          \* complete segments in a body
MaxPayloadLen == 4    \* bytes of a round-trip payload

CRLF == <<CR, LF>>

\* 'Content-Disposition: form-data; name="foo"'
HField == <<67, 111, 110, 116, 101, 110, 116, 45, 68, 105, 115, 112, 111, 115, 105, 116, 105, 111, 110, 58, 32, 102, 111, 114, 109, 45, 100, 97, 116, 97, 59, 32, 110, 97, 109, 101, 61, 34, 102, 111, 111, 34>>
\* 'Content-Disposition: form-data; name="upload"; filename="a.txt"'
HFile == <<67, 111, 110, 116, 101, 110, 116, 45, 68, 105, 115, 112, 111, 115, 105, 116, 105, 111, 110, 58, 32, 102, 111, 114, 109, 45, 100, 97, 116, 97, 59, 32, 110, 97, 109, 101, 61, 34, 117, 112, 108, 111, 97, 100, 34, 59, 32, 102, 105, 108, 101, 110, 97, 109, 101, 61, 34, 97, 46, 116, 120, 116, 34>>
\* 'Content-Disposition: form-data; name'      (the name segment lacks =)
HNoEq == <<67, 111, 110, 116, 101, 110, 116, 45, 68, 105, 115, 112, 111, 115, 105, 116, 105, 111, 110, 58, 32, 102, 111, 114, 109, 45, 100, 97, 116, 97, 59, 32, 110, 97, 109, 101>>
\* 'Content-Disposition: form-data'            (no name segment)
HNoSeg == <<67, 111, 110, 116, 101, 110, 116, 45, 68, 105, 115, 112, 111, 115, 105, 116, 105, 111, 110, 58, 32, 102, 111, 114, 109, 45, 100, 97, 116, 97>>
\* 'Content-Disposition: form-data; name=foo'  (the value is not quoted)
HUnquoted == <<67, 111, 110, 116, 101, 110, 116, 45, 68, 105, 115, 112, 111, 115, 105, 116, 105, 111, 110, 58, 32, 102, 111, 114, 109, 45, 100, 97, 116, 97, 59, 32, 110, 97, 109, 101, 61, 102, 111, 111>>
\* 'Content-Disposition: form-data; name=123'  (the value is a number)
HNumber == <<67, 111, 110, 116, 101, 110, 116, 45, 68, 105, 115, 112, 111, 115, 105, 116, 105, 111, 110, 58, 32, 102, 111, 114, 109, 45, 100, 97, 116, 97, 59, 32, 110, 97, 109, 101, 61, 49, 50, 51>>
\* 'Content-Type: text/plain'
CType == <<67, 111, 110, 116, 101, 110, 116, 45, 84, 121, 112, 101, 58, 32, 116, 101, 120, 116, 47, 112, 108, 97, 105, 110>>
\* 'Content-Type'                              (the info line lacks :)
CTypeNoColon == <<67, 111, 110, 116, 101, 110, 116, 45, 84, 121, 112, 101>>

StrFoo == <<102, 111, 111>>                                 \* 'foo'
StrBar == <<98, 97, 114>>                                   \* 'bar'
StrUpload == <<117, 112, 108, 111, 97, 100>>                \* 'upload'
StrATxt == <<97, 46, 116, 120, 116>>                        \* 'a.txt'
StrTextPlain == <<116, 101, 120, 116, 47, 112, 108, 97, 105, 110>>  \* 'text/plain'
StrHello == <<104, 101, 108, 108, 111>>                     \* 'hello'
StrHelloWorld == <<104, 101, 108, 108, 111, 44, 32, 119, 111, 114, 108, 100>>  \* 'hello, world'
StrHelloBang == <<104, 101, 108, 108, 111, 33>>             \* 'hello!'

\* A text-field segment after its boundary line: header, blank line, value.
FieldSeg(h, value) == h \o CRLF \o CRLF \o value \o CRLF
\* A file segment after its boundary line: header, info, blank line, payload.
FileSeg(h, ct, payload) == h \o CRLF \o ct \o CRLF \o CRLF \o payload \o CRLF

\* Segments process assembles into a Part.
GoodSegs ==
    { FieldSeg(HField, StrBar),
      FileSeg(HFile, CType, StrHello),
      FileSeg(HFile, CType, StrHelloWorld),
      FileSeg(HFile, CType, StrHelloBang \o <<Dash, Dash, 98>>),   \* payload 'hello!--b'
      FieldSeg(HNumber, StrBar),
      FieldSeg(HField, <<98, 97>> \o CRLF \o <<114>>) }     \* value 'ba' CRLF 'r'

\* Segments process throws on.
BadSegs ==
    { FieldSeg(HField, <<>>),                               \* empty field value
      FieldSeg(HNoEq, StrBar),
      FieldSeg(HNoSeg, StrBar),
      FieldSeg(HUnquoted, StrBar),
      FileSeg(HField, CType, StrHello),                     \* no filename segment
      FileSeg(HFile, CTypeNoColon, StrHello) }

\* The segments that come before the last one of a body.
LeadingSegs == {FieldSeg(HField, StrBar), FileSeg(HFile, CType, StrHello)}

\* The segment sequences of a body: up to n segments, leading ones and a last
\* one of any kind.
RECURSIVE SegSeqs(_)
SegSeqs(n) ==
    IF n = 0 THEN {<<>>}
    ELSE LET shorter == SegSeqs(n - 1)
             leading == {q \in shorter : Len(q) = n - 1 /\ \A k \in 1..Len(q) : q[k] \in LeadingSegs}
         IN  shorter \cup {Append(q, sg) : q \in leading, sg \in GoodSegs \cup BadSegs}

\* The bytes of a segment sequence, each segment after a boundary line d.
RECURSIVE Flatten(_, _)
Flatten(q, d) == IF q = <<>> THEN <<>> ELSE d \o CRLF \o Head(q) \o Flatten(Tail(q), d)

\* How a body ends after its last segment, d being the boundary line: closed,
\* or cut off at the boundary, in the body, or in the next segment's headers.
Tails(d) ==
    { d \o <<Dash, Dash>> \o CRLF,
      d,
      <<>>,
      d \o CRLF \o HFile,
      d \o CRLF \o HFile \o CRLF,
      d \o CRLF \o HFile \o CRLF \o CType \o CRLF }

StructuredBodies(d) == {Flatten(q, d) \o t : q \in SegSeqs(MaxSegs), t \in Tails(d)}

\* The bytes of round-trip payloads: '-', 'b', CR, LF and 0xFF.
PayloadBytes == {Dash, 98, CR, LF, 255}

RECURSIVE SeqsUpTo(_, _)
SeqsUpTo(S, n) ==
    IF n = 0 THEN {<<>>}
    ELSE LET shorter == SeqsUpTo(S, n - 1)
         IN  shorter \cup {Append(q, x) : q \in {r \in shorter : Len(r) = n - 1}, x \in S}

\* One file part holding payload, closed by the boundary line d.
RoundTripBody(d, payload) == d \o CRLF \o FileSeg(HFile, CType, payload) \o d \o <<Dash, Dash>> \o CRLF

RoundTripBodies(d) == {RoundTripBody(d, p) : p \in SeqsUpTo(PayloadBytes, MaxPayloadLen)}

\* '--' + boundary, line 124 and line 147.
Delim(bnd) == <<Dash, Dash>> \o bnd

\* The calls parse(body, boundary): the boundary argument and the boundary
\* line the body is written with.
\*   'b'  with lines '--b'         the body uses the boundary
\*   ''   with lines '--'          the empty boundary
\*   'q'  with lines '--b'         the boundary occurs nowhere in the body
\*   'ab' with lines '--a' LF 'b'  a lone LF inside the boundary line
Calls ==
    {[body |-> x, boundary |-> <<98>>] : x \in StructuredBodies(Delim(<<98>>)) \cup RoundTripBodies(Delim(<<98>>))}
    \cup {[body |-> x, boundary |-> <<>>] : x \in StructuredBodies(Delim(<<>>))}
    \cup {[body |-> x, boundary |-> <<113>>] : x \in StructuredBodies(Delim(<<98>>))}
    \cup {[body |-> x, boundary |-> <<97, 98>>] : x \in StructuredBodies(<<Dash, Dash, 97, LF, 98>>)}

(***************************************************************************)
(* parse (the byte scanner), lines 35 and 105-178.                         *)
(***************************************************************************)
VARIABLES
    multipartBodyBuffer,  \* the body argument
    boundary,             \* the boundary argument
    i,                    \* the loop index, line 113
    lastline,             \* line 105
    header,               \* line 106
    info,                 \* line 107
    state,                \* line 108
    buffer,               \* line 109
    allParts,             \* line 110
    fieldInfo,            \* line 111
    pc,                   \* "loop", "returned" or "threw"
    result,               \* the value parse returned
    mark,                 \* history: mark[s] is the index after the byte that last entered state s
    emitLog               \* history: one record per allParts.push, line 157: at, the index after
                          \* the matching byte; from, where the data begins; opened, where the
                          \* segment was opened; stored, where header, info and fieldInfo were
                          \* stored; raw, the raw part handed to process

parseVars == <<multipartBodyBuffer, boundary, i, lastline, header, info, state, buffer,
               allParts, fieldInfo, pc, result, mark, emitLog>>

\* getBoundary, lines 183-198.
VARIABLES
    gbHeader,             \* the header argument
    items,                \* line 184
    gbI,                  \* the loop index, line 187
    gbPc,                 \* "idle", "loop" or "returned"
    gbResult              \* the value getBoundary returned

gbVars == <<gbHeader, items, gbI, gbPc, gbResult>>

\* Successive calls of parse.
VARIABLES
    callLog               \* history: the arguments and the outcome of every finished call

callVars == <<callLog>>

\* The middleware's forEach over the Parts, lines 225-238.
VARIABLES
    mwParts,              \* parts, line 218
    mwI,                  \* the index forEach has reached
    reqFiles,             \* req.files
    reqFields,            \* req.fields
    filesProto,           \* the prototype of the object req.files
    fieldsProto,          \* the prototype of the object req.fields
    prior,                \* req.files and req.fields as the handler found them
    optionsDest,          \* options.dest
    disk,                 \* the files written: a set of [path, data]
    mwPc                  \* "idle", "start", "forEach", "write", "done" or "threw"

mwVars == <<mwParts, mwI, reqFiles, reqFields, filesProto, fieldsProto, prior, optionsDest, disk, mwPc>>

vars == <<parseVars, gbVars, callVars, mwVars>>

\* What a step of parse and what a step of getBoundary leave alone.
notParseVars == <<gbVars, callVars, mwVars>>
notGbVars == <<parseVars, callVars, mwVars>>

\* No call of parse has finished.
NoCalls == callLog = <<>>

\* The middleware's forEach is not running.
MwIdle ==
    /\ mwParts = <<>>
    /\ mwI = 0
    /\ reqFiles = JsUndefined
    /\ reqFields = JsUndefined
    /\ filesProto = JsObjectPrototype
    /\ fieldsProto = JsObjectPrototype
    /\ prior = <<JsUndefined, JsUndefined>>
    /\ optionsDest = JsUndefined
    /\ disk = {}
    /\ mwPc = "idle"

\* No call of getBoundary is in progress.
GbIdle ==
    /\ gbHeader = <<>>
    /\ items = <<>>
    /\ gbI = 0
    /\ gbPc = "idle"
    /\ gbResult = <<>>

\* The scanner states, line 108 and lines 123-170.
SEEK_BOUNDARY == 0
READ_HEADER == 1
READ_INFO == 2
READ_FIELD_LINE == 3
READ_BODY == 4
AWAIT_NEXT_BOUNDARY == 5

\* emptyBuffer(), line 11.
emptyBuffer == <<>>

\* Lines 105-111: the state of a call before its first byte.
Init ==
    /\ \E c \in Calls : multipartBodyBuffer = c.body /\ boundary = c.boundary
    /\ i = 0
    /\ lastline = emptyBuffer
    /\ header = <<>>
    /\ info = <<>>
    /\ state = SEEK_BOUNDARY
    /\ buffer = <<>>
    /\ allParts = <<>>
    /\ fieldInfo = <<>>
    /\ pc = "loop"
    /\ result = <<>>
    /\ mark = [s \in SEEK_BOUNDARY..AWAIT_NEXT_BOUNDARY |-> 0]
    /\ emitLog = <<>>
    /\ GbIdle
    /\ NoCalls
    /\ MwIdle

\* Lines 114-117.
oneByte == multipartBodyBuffer[i + 1]
prevByte == IF i > 0 THEN multipartBodyBuffer[i] ELSE -1
newLineDetected == oneByte = LF /\ prevByte = CR
newLineChar == oneByte = LF \/ oneByte = CR

\* Lines 119-121: lastline once the byte has been looked at.
Appended == IF ~newLineChar THEN lastline \o <<oneByte>> ELSE lastline

\* The candidate line as it would be without the mem save.
CandidateNeverCleared == Appended

\* Lines 142-145 (mem save): the candidate line READ_BODY compares.
Candidate == IF Len(Appended) > Len(boundary) + 4 THEN emptyBuffer ELSE Appended

\* Line 147: the candidate line is '--' + boundary.
BoundaryMatched == Delim(boundary) = ToString(Candidate)

\* Lines 148-155: the raw part handed to process at a boundary match.
RawPart ==
    LET j == Len(buffer) - Len(Candidate)
    IN  [header |-> header, info |-> info, part |-> Slice0(buffer, j - 1), fieldInfo |-> fieldInfo]

\* Line 113: an iteration of the loop runs.
InLoop == pc = "loop" /\ i < Len(multipartBodyBuffer)

\* A line-reading state sees a byte that does not end a line (no branch of
\* lines 123-174 applies; SEEK_BOUNDARY .. READ_FIELD_LINE).
Accumulate ==
    /\ InLoop
    /\ state \in SEEK_BOUNDARY..READ_FIELD_LINE
    /\ ~newLineDetected
    /\ lastline' = Appended
    /\ i' = i + 1
    /\ UNCHANGED notParseVars
    /\ UNCHANGED <<multipartBodyBuffer, boundary, header, info, state, buffer, allParts,
                   fieldInfo, pc, result, mark, emitLog>>

\* Lines 123-127.
SeekBoundary ==
    /\ InLoop
    /\ state = SEEK_BOUNDARY
    /\ newLineDetected
    /\ IF Delim(boundary) = ToString(Appended)
       THEN state' = READ_HEADER /\ mark' = [mark EXCEPT ![READ_HEADER] = i + 1]
       ELSE UNCHANGED <<state, mark>>
    /\ lastline' = emptyBuffer
    /\ i' = i + 1
    /\ UNCHANGED notParseVars
    /\ UNCHANGED <<multipartBodyBuffer, boundary, header, info, buffer, allParts,
                   fieldInfo, pc, result, emitLog>>

\* Lines 128-131.
ReadHeader ==
    /\ InLoop
    /\ state = READ_HEADER
    /\ newLineDetected
    /\ header' = ToString(Appended)
    /\ state' = READ_INFO
    /\ mark' = [mark EXCEPT ![READ_INFO] = i + 1]
    /\ lastline' = emptyBuffer
    /\ i' = i + 1
    /\ UNCHANGED notParseVars
    /\ UNCHANGED <<multipartBodyBuffer, boundary, info, buffer, allParts, fieldInfo,
                   pc, result, emitLog>>

\* Lines 132-135.
ReadInfo ==
    /\ InLoop
    /\ state = READ_INFO
    /\ newLineDetected
    /\ info' = ToString(Appended)
    /\ state' = READ_FIELD_LINE
    /\ mark' = [mark EXCEPT ![READ_FIELD_LINE] = i + 1]
    /\ lastline' = emptyBuffer
    /\ i' = i + 1
    /\ UNCHANGED notParseVars
    /\ UNCHANGED <<multipartBodyBuffer, boundary, header, buffer, allParts, fieldInfo,
                   pc, result, emitLog>>

\* The step as it would be if an empty field line left the field line of the
\* previous segment in place.
ReadFieldLineKeepsOld ==
    /\ InLoop
    /\ state = READ_FIELD_LINE
    /\ newLineDetected
    /\ fieldInfo' = IF Appended = <<>> THEN fieldInfo ELSE ToString(Appended)
    /\ state' = READ_BODY
    /\ mark' = [mark EXCEPT ![READ_BODY] = i + 1]
    /\ buffer' = <<>>
    /\ lastline' = emptyBuffer
    /\ i' = i + 1
    /\ UNCHANGED notParseVars
    /\ UNCHANGED <<multipartBodyBuffer, boundary, header, info, allParts, pc, result, emitLog>>

\* Lines 136-140.
ReadFieldLine ==
    /\ InLoop
    /\ state = READ_FIELD_LINE
    /\ newLineDetected
    /\ fieldInfo' = ToString(Appended)
    /\ state' = READ_BODY
    /\ mark' = [mark EXCEPT ![READ_BODY] = i + 1]
    /\ buffer' = <<>>
    /\ lastline' = emptyBuffer
    /\ i' = i + 1
    /\ UNCHANGED notParseVars
    /\ UNCHANGED <<multipartBodyBuffer, boundary, header, info, allParts, pc, result, emitLog>>

\* push as it would be if it were unshift.
PushFront(parts, x) == <<x>> \o parts

\* allParts.push(x), line 157.
Push(parts, x) == Append(parts, x)

\* Lines 141-169, a byte that completes '--' + boundary and process returns:
\* the Part is pushed, lines 147-162.
ReadBodyEmit ==
    /\ InLoop
    /\ state = READ_BODY
    /\ BoundaryMatched
    /\ Process(RawPart).ok
    /\ allParts' = Push(allParts, Process(RawPart).v)
    /\ buffer' = <<>>
    /\ lastline' = emptyBuffer
    /\ state' = AWAIT_NEXT_BOUNDARY
    /\ header' = <<>>
    /\ info' = <<>>
    /\ mark' = [mark EXCEPT ![AWAIT_NEXT_BOUNDARY] = i + 1]
    /\ emitLog' = Append(emitLog, [at |-> i + 1,
                                   from |-> IF info = <<>> THEN mark[READ_FIELD_LINE] ELSE mark[READ_BODY],
                                   opened |-> mark[READ_HEADER],
                                   stored |-> <<mark[READ_INFO], mark[READ_FIELD_LINE], mark[READ_BODY]>>,
                                   raw |-> RawPart])
    /\ i' = i + 1
    /\ UNCHANGED notParseVars
    /\ UNCHANGED <<multipartBodyBuffer, boundary, fieldInfo, pc, result>>

\* Lines 141-157, a byte that completes '--' + boundary and process throws:
\* the exception leaves parse, nothing is returned.
ReadBodyThrow ==
    /\ InLoop
    /\ state = READ_BODY
    /\ BoundaryMatched
    /\ ~Process(RawPart).ok
    /\ pc' = "threw"
    /\ UNCHANGED notParseVars
    /\ UNCHANGED <<multipartBodyBuffer, boundary, i, lastline, header, info, state, buffer,
                   allParts, fieldInfo, result, mark, emitLog>>

\* The step as it would be if the mem save emptied the body accumulator
\* along with the candidate line.
ReadBodyPushClearsBody ==
    /\ InLoop
    /\ state = READ_BODY
    /\ ~BoundaryMatched
    /\ buffer' = IF Len(Appended) > Len(boundary) + 4 THEN <<oneByte>> ELSE Append(buffer, oneByte)
    /\ lastline' = IF newLineDetected THEN emptyBuffer ELSE Candidate
    /\ i' = i + 1
    /\ UNCHANGED notParseVars
    /\ UNCHANGED <<multipartBodyBuffer, boundary, header, info, state, allParts,
                   fieldInfo, pc, result, mark, emitLog>>

\* Lines 141-169, any other byte: it joins the body, lines 163-169.
ReadBodyPush ==
    /\ InLoop
    /\ state = READ_BODY
    /\ ~BoundaryMatched
    /\ buffer' = Append(buffer, oneByte)
    /\ lastline' = IF newLineDetected THEN emptyBuffer ELSE Candidate
    /\ i' = i + 1
    /\ UNCHANGED notParseVars
    /\ UNCHANGED <<multipartBodyBuffer, boundary, header, info, state, allParts,
                   fieldInfo, pc, result, mark, emitLog>>

\* The step after a Part as it would be if the scanner went back to seeking
\* a boundary line instead of reading the next header.
AwaitNextBoundaryReseeks ==
    /\ InLoop
    /\ state = AWAIT_NEXT_BOUNDARY
    /\ IF newLineDetected
       THEN state' = SEEK_BOUNDARY /\ mark' = [mark EXCEPT ![SEEK_BOUNDARY] = i + 1]
       ELSE UNCHANGED <<state, mark>>
    /\ lastline' = Appended
    /\ i' = i + 1
    /\ UNCHANGED notParseVars
    /\ UNCHANGED <<multipartBodyBuffer, boundary, header, info, buffer, allParts,
                   fieldInfo, pc, result, emitLog>>

\* Lines 170-174 (with lines 119-121: lastline still grows, and is not reset).
AwaitNextBoundary ==
    /\ InLoop
    /\ state = AWAIT_NEXT_BOUNDARY
    /\ IF newLineDetected
       THEN state' = READ_HEADER /\ mark' = [mark EXCEPT ![READ_HEADER] = i + 1]
       ELSE UNCHANGED <<state, mark>>
    /\ lastline' = Appended
    /\ i' = i + 1
    /\ UNCHANGED notParseVars
    /\ UNCHANGED <<multipartBodyBuffer, boundary, header, info, buffer, allParts,
                   fieldInfo, pc, result, emitLog>>

\* The return value as it would be if a body in progress at the end of input
\* were flushed into a last Part.
ReturnedWithFlush ==
    IF state = READ_BODY
    THEN Append(allParts, <<<<StrData, JsBuffer(BufferFrom(buffer))>>>>)
    ELSE allParts

\* What parse returns at the end of input, line 177.
Returned == allParts

\* Lines 113 and 177: the input is exhausted, parse returns allParts.
Return ==
    /\ pc = "loop"
    /\ i = Len(multipartBodyBuffer)
    /\ pc' = "returned"
    /\ result' = Returned
    /\ UNCHANGED notParseVars
    /\ UNCHANGED <<multipartBodyBuffer, boundary, i, lastline, header, info, state, buffer,
                   allParts, fieldInfo, mark, emitLog>>

Next ==
    \/ Accumulate
    \/ SeekBoundary
    \/ ReadHeader
    \/ ReadInfo
    \/ ReadFieldLine
    \/ ReadBodyEmit
    \/ ReadBodyThrow
    \/ ReadBodyPush
    \/ AwaitNextBoundary
    \/ Return

Spec == Init /\ [][Next]_vars

(***************************************************************************)
(* Properties of parse.                                                    *)
(***************************************************************************)
Finished == pc \in {"returned", "threw"}

\* The data of an assembled Part, as bytes or code units.
DataOf(part) == Get(part, StrData).v

\* The Part a file segment with the headers HFile and CType stands for.
FilePart(payload) ==
    <<<<StrFilename, JsString(StrATxt)>>, <<StrName, JsString(StrUpload)>>,
      <<StrType, JsString(StrTextPlain)>>, <<StrData, JsBuffer(payload)>>>>

\* The Part a field segment with the header HField stands for.
FieldPart(value) == <<<<StrName, JsString(StrFoo)>>, <<StrData, JsString(value)>>>>

\* C1: round trip.  A body holding one file part whose payload does not contain
\* '--' + boundary parses to exactly one Part whose data is the payload.
C1_RoundTrip ==
    Finished =>
        \A p \in SeqsUpTo(PayloadBytes, MaxPayloadLen) :
            ( /\ multipartBodyBuffer = RoundTripBody(Delim(boundary), p)
              /\ ~Contains(p, Delim(boundary)) )
            => /\ pc = "returned"
               /\ Len(result) = 1
               /\ DataOf(result[1]) = p

\* The bytes a segment holds between index from and the boundary marker that
\* ends at index at, less the CRLF before the marker.
SegmentData(from, at) ==
    LET between == SubSeq(multipartBodyBuffer, from + 1, at - Len(Delim(boundary)))
        n == Len(between)
    IN  IF n >= 2 /\ between[n - 1] = CR /\ between[n] = LF
        THEN SubSeq(between, 1, n - 2)
        ELSE between

\* The k-th Part was emitted at a boundary marker written out in the body.
AtMarker(k) ==
    LET at == emitLog[k].at
        n == Len(Delim(boundary))
    IN  at - n >= emitLog[k].from /\ SubSeq(multipartBodyBuffer, at - n + 1, at) = Delim(boundary)

\* C2: the data of every emitted Part is the bytes between the end of its
\* header block (the blank line) and the boundary marker that ends it, less
\* the one CRLF before the marker (stated for a non-empty boundary).
C2_DataIsSegmentBytes ==
    \A k \in 1..Len(emitLog) :
        (boundary # <<>> /\ AtMarker(k)) => DataOf(allParts[k]) = SegmentData(emitLog[k].from, emitLog[k].at)

\* One step leaves allParts alone or appends one Part at its end.
AppendOnly ==
    \/ allParts' = allParts
    \/ /\ Len(allParts') = Len(allParts) + 1
       /\ SubSeq(allParts', 1, Len(allParts)) = allParts

\* The k-th Part is the one assembled from the k-th segment that ended, the
\* segments end in increasing input positions, and parse returns that sequence.
InBodyOrder ==
    /\ Len(allParts) = Len(emitLog)
    /\ \A k \in 1..Len(emitLog) : Process(emitLog[k].raw) = Ok(allParts[k])
    /\ \A j, k \in 1..Len(emitLog) : j < k => emitLog[j].at < emitLog[k].at
    /\ pc = "returned" => result = allParts

\* C3: Parts are listed in the order their segments occur in the body; a Part
\* is only ever appended at the end and none is removed, replaced or reordered.
C3_PartsInBodyOrder == [](InBodyOrder) /\ [][AppendOnly]_vars

\* Two Parts of different segments were returned, in the segments' order.
C3_Witness ==
    /\ pc = "returned"
    /\ Len(result) = 2
    /\ result[1] = FieldPart(StrBar)
    /\ result[2] = FilePart(StrHello)

\* Well-formed segments: text fields (with a one-line, a two-line and an empty
\* value) and files.
WellFormedSegs ==
    { FieldSeg(HField, StrBar),
      FieldSeg(HField, <<98, 97>> \o CRLF \o <<114>>),
      FieldSeg(HField, <<>>),
      FileSeg(HFile, CType, StrHello),
      FileSeg(HFile, CType, StrHelloWorld) }

\* The body is well formed and holds the segments q.
WellFormed(q) ==
    /\ \A k \in 1..Len(q) : q[k] \in WellFormedSegs
    /\ Len(q) >= 1
    /\ multipartBodyBuffer = Flatten(q, Delim(boundary)) \o Delim(boundary) \o <<Dash, Dash>> \o CRLF

\* C4: for a well-formed body, parse returns as many Parts as the body has
\* boundary-delimited segments (stated for a non-empty boundary).
C4_CountEqualsSegments ==
    (Finished /\ boundary # <<>>) =>
        \A q \in SegSeqs(MaxSegs) :
            WellFormed(q) => pc = "returned" /\ Len(result) = Len(q)

\* The closed body holding the segments q.
ClosedBody(q) == Flatten(q, Delim(boundary)) \o Delim(boundary) \o <<Dash, Dash>> \o CRLF

\* The values of a text field: one line, empty, two lines.
FieldValues == {StrBar, <<>>, <<98, 97>> \o CRLF \o <<114>>}

\* C5: a text-field segment (name N, value V) is returned as the Part
\* {name: N, data: V}; a file segment as {name, filename, type, data: payload};
\* a field followed by a file as these two Parts in that order (stated for a
\* non-empty boundary).
C5_FieldAndFileParts ==
    (Finished /\ boundary # <<>>) =>
        /\ \A v \in FieldValues :
              multipartBodyBuffer = ClosedBody(<<FieldSeg(HField, v)>>)
              => pc = "returned" /\ result = <<FieldPart(v)>>
        /\ \A p \in {StrHello, StrHelloWorld} :
              multipartBodyBuffer = ClosedBody(<<FileSeg(HFile, CType, p)>>)
              => /\ pc = "returned"
                 /\ Len(result) = 1
                 /\ \A key \in {StrName, StrFilename, StrType, StrData} :
                       HasProp(result[1], key) /\ Get(result[1], key) = Get(FilePart(p), key)
        /\ multipartBodyBuffer = ClosedBody(<<FieldSeg(HField, StrBar), FileSeg(HFile, CType, StrHello)>>)
              => pc = "returned" /\ result = <<FieldPart(StrBar), FilePart(StrHello)>>

\* C6: when the input ends in READ_HEADER, READ_INFO, READ_FIELD_LINE or
\* READ_BODY, parse returns, without failing, exactly the Parts of the segments
\* that ended before the segment in progress was opened; none for that segment.
C6_TruncatedSegmentDropped ==
    /\ i = Len(multipartBodyBuffer) => pc # "threw"
    /\ (pc = "returned" /\ state \in READ_HEADER..READ_BODY) =>
          /\ Len(result) = Len(emitLog)
          /\ \A k \in 1..Len(emitLog) :
                /\ result[k] = Process(emitLog[k].raw).v
                /\ emitLog[k].at < mark[READ_HEADER]

\* The input ended in READ_BODY after one Part had been completed.
C6_Witness ==
    /\ pc = "returned"
    /\ state = READ_BODY
    /\ buffer # <<>>
    /\ Len(result) = 1

\* Segment k of a header line (counted from 0) is missing, lacks '=', or has a
\* value (the text between its first and second '=', trimmed) that Valid rejects.
SegmentMalformed(hdr, k, Valid(_)) ==
    LET segs == Split(hdr, Semicolon)
    IN  \/ Len(segs) <= k
        \/ LET kv == Split(segs[k + 1], EqualsSign)
           IN  Len(kv) < 2 \/ ~Valid(Trim(kv[2]))

\* A raw part's header lines are malformed for its kind: a field needs segment
\* 1, a file needs segments 1 and 2 and an info line with ':'.
Malformed(raw, Valid(_)) ==
    IF raw.fieldInfo # <<>>
    THEN SegmentMalformed(raw.header, 1, Valid)
    ELSE \/ SegmentMalformed(raw.header, 1, Valid)
         \/ SegmentMalformed(raw.header, 2, Valid)
         \/ \A k \in 1..Len(raw.info) : raw.info[k] # Colon

\* Quoted-string syntax: a text in double quotes with no quote inside.
QuotedString(s) ==
    /\ Len(s) >= 2
    /\ s[1] = Quote
    /\ s[Len(s)] = Quote
    /\ \A k \in 2..(Len(s) - 1) : s[k] # Quote /\ s[k] # Backslash

\* C7: no Part is ever assembled from a part whose header lines are
\* malformed (a segment missing or lacking '=', a value that is not a quoted
\* string, a file info line lacking ':'); parse fails and returns nothing
\* (stated for a non-empty boundary).
C7_MalformedHeaderFails ==
    /\ boundary # <<>> => \A k \in 1..Len(emitLog) : ~Malformed(emitLog[k].raw, QuotedString)
    /\ pc = "threw" => result = <<>>

\* C8: if the boundary string (non-empty) occurs in no line of the body, parse
\* returns an empty sequence.
C8_AbsentBoundaryGivesNoParts ==
    (pc = "returned" /\ boundary # <<>> /\ ~Contains(multipartBodyBuffer, boundary))
        => result = <<>>

\* C9: with the empty string as boundary, parse returns an empty sequence.
C9_EmptyBoundaryGivesNoParts ==
    (pc = "returned" /\ boundary = <<>>) => result = <<>>

(***************************************************************************)
(* getBoundary, lines 183-198: one step per iteration of its loop.         *)
(***************************************************************************)
MaxItems == 3         \* ';'-separated segments of a content-type header

\* 'multipart/form-data'
SegMultipart == <<109, 117, 108, 116, 105, 112, 97, 114, 116, 47, 102, 111, 114, 109, 45, 100, 97, 116, 97>>
\* 'text/plain'
SegTextPlain == <<116, 101, 120, 116, 47, 112, 108, 97, 105, 110>>
\* ' boundary=ABC123'
SegBoundaryABC == <<32, 98, 111, 117, 110, 100, 97, 114, 121, 61, 65, 66, 67, 49, 50, 51>>
\* ' boundary = XY '
SegBoundarySpacedXY == <<32, 98, 111, 117, 110, 100, 97, 114, 121, 32, 61, 32, 88, 89, 32>>
\* ' boundary'                                  (no '=')
SegBoundaryNoEq == <<32, 98, 111, 117, 110, 100, 97, 114, 121>>
\* ' charset=utf-8'
SegCharset == <<32, 99, 104, 97, 114, 115, 101, 116, 61, 117, 116, 102, 45, 56>>

HeaderSegs == {SegMultipart, SegTextPlain, SegBoundaryABC, SegBoundarySpacedXY, SegBoundaryNoEq, SegCharset}

\* Array.prototype.join(';')
RECURSIVE Join(_)
Join(q) == IF Len(q) = 1 THEN q[1] ELSE q[1] \o <<Semicolon>> \o Join(Tail(q))

\* The content-type header values getBoundary is called with.
ContentTypes == {Join(q) : q \in SeqsUpTo(HeaderSegs, MaxItems) \ {<<>>}}

\* No call of parse is in progress.
ParseIdle ==
    /\ multipartBodyBuffer = <<>>
    /\ boundary = <<>>
    /\ i = 0
    /\ lastline = emptyBuffer
    /\ header = <<>>
    /\ info = <<>>
    /\ state = SEEK_BOUNDARY
    /\ buffer = <<>>
    /\ allParts = <<>>
    /\ fieldInfo = <<>>
    /\ pc = "idle"
    /\ result = <<>>
    /\ mark = [s \in SEEK_BOUNDARY..AWAIT_NEXT_BOUNDARY |-> 0]
    /\ emitLog = <<>>

\* Line 184: getBoundary has split its argument.
InitGB ==
    /\ ParseIdle
    /\ NoCalls
    /\ MwIdle
    /\ gbHeader \in ContentTypes
    /\ items = Split(gbHeader, Semicolon)
    /\ gbI = 0
    /\ gbPc = "loop"
    /\ gbResult = <<>>

\* Line 188: (items[i] + '').trim()
item == Trim(items[gbI + 1])

\* Lines 191-192: (k[1] + '').trim(), k the item split on '='; an undefined
\* k[1] becomes the text 'undefined'.
BoundaryOf(it) ==
    LET k == Split(it, EqualsSign)
    IN  IF Len(k) < 2 THEN Trim(StrUndefined) ELSE Trim(k[2])

\* Lines 187-193: the item holds 'boundary', its value is returned.
GetBoundaryFound ==
    /\ gbPc = "loop"
    /\ gbI < Len(items)
    /\ Contains(item, StrBoundary)
    /\ gbResult' = BoundaryOf(item)
    /\ gbPc' = "returned"
    /\ UNCHANGED <<gbHeader, items, gbI>>
    /\ UNCHANGED notGbVars

\* Lines 187-194: the item does not hold 'boundary', the loop goes on.
GetBoundarySkip ==
    /\ gbPc = "loop"
    /\ gbI < Len(items)
    /\ ~Contains(item, StrBoundary)
    /\ gbI' = gbI + 1
    /\ UNCHANGED <<gbHeader, items, gbPc, gbResult>>
    /\ UNCHANGED notGbVars

\* Line 197: no item held 'boundary'.
GetBoundaryNone ==
    /\ gbPc = "loop"
    /\ gbI = Len(items)
    /\ gbResult' = <<>>
    /\ gbPc' = "returned"
    /\ UNCHANGED <<gbHeader, items, gbI>>
    /\ UNCHANGED notGbVars

NextGB ==
    \/ GetBoundaryFound
    \/ GetBoundarySkip
    \/ GetBoundaryNone

SpecGB == InitGB /\ [][NextGB]_vars

(***************************************************************************)
(* Properties of getBoundary.                                              *)
(***************************************************************************)
\* The trimmed segments of the header that hold 'boundary' (counted from 1).
BoundarySegs == {k \in 1..Len(Split(gbHeader, Semicolon)) : Contains(Trim(Split(gbHeader, Semicolon)[k]), StrBoundary)}

\* The leftmost of them.
LeftmostBoundarySeg ==
    Trim(Split(gbHeader, Semicolon)[CHOOSE k \in BoundarySegs : \A j \in BoundarySegs : k <= j])

\* C10: getBoundary returns the trimmed text after the '=' of the leftmost
\* trimmed segment holding 'boundary', the empty string if there is no such
\* segment; the result is the empty string or a token taken from the header.
C10_BoundaryFromHeader ==
    gbPc = "returned" =>
        /\ BoundarySegs = {} => gbResult = <<>>
        /\ (BoundarySegs # {} /\ Len(Split(LeftmostBoundarySeg, EqualsSign)) >= 2)
              => gbResult = Trim(Split(LeftmostBoundarySeg, EqualsSign)[2])
        /\ gbResult = <<>> \/ Contains(gbHeader, gbResult)

(***************************************************************************)
(* Successive calls of parse, lines 35 and 105-111: every call declares    *)
(* its accumulators anew.                                                  *)
(***************************************************************************)
MaxCalls == 3

\* The arguments of the successive calls: bodies written with the boundary
\* line '--b' (a closed field, a closed file, two parts, a body cut off in
\* its second part, a field with an empty value, a payload with a lone LF),
\* parsed with the boundary 'b' and with the boundary 'q'.
RepeatedBodies ==
    LET d == Delim(<<98>>)
        closing == d \o <<Dash, Dash>> \o CRLF
    IN  { Flatten(<<FieldSeg(HField, StrBar)>>, d) \o closing,
          Flatten(<<FileSeg(HFile, CType, StrHello)>>, d) \o closing,
          Flatten(<<FieldSeg(HField, StrBar), FileSeg(HFile, CType, StrHello)>>, d),
          Flatten(<<FieldSeg(HField, <<>>)>>, d) \o closing,
          RoundTripBody(d, <<Dash, LF, Dash, 98>>) }

RepeatedCalls ==
    {[body |-> x, boundary |-> <<98>>] : x \in RepeatedBodies}
    \cup {[body |-> Flatten(<<FieldSeg(HField, StrBar)>>, Delim(<<98>>)), boundary |-> <<113>>]}

\* The first call.
InitCalls ==
    /\ \E c \in RepeatedCalls : multipartBodyBuffer = c.body /\ boundary = c.boundary
    /\ i = 0
    /\ lastline = emptyBuffer
    /\ header = <<>>
    /\ info = <<>>
    /\ state = SEEK_BOUNDARY
    /\ buffer = <<>>
    /\ allParts = <<>>
    /\ fieldInfo = <<>>
    /\ pc = "loop"
    /\ result = <<>>
    /\ mark = [s \in SEEK_BOUNDARY..AWAIT_NEXT_BOUNDARY |-> 0]
    /\ emitLog = <<>>
    /\ GbIdle
    /\ NoCalls
    /\ MwIdle

\* The output accumulator as it would be if it outlived the call.
KeptParts == allParts

\* Line 110: the output accumulator of a new call.
NewParts == <<>>

\* Line 35 and lines 105-111: parse is called again after the previous call
\* has returned or thrown.
Call ==
    /\ pc \in {"returned", "threw"}
    /\ Len(callLog) < MaxCalls - 1
    /\ callLog' = Append(callLog, [body |-> multipartBodyBuffer, boundary |-> boundary,
                                   pc |-> pc, result |-> result])
    /\ \E c \in RepeatedCalls : multipartBodyBuffer' = c.body /\ boundary' = c.boundary
    /\ i' = 0
    /\ lastline' = emptyBuffer
    /\ header' = <<>>
    /\ info' = <<>>
    /\ state' = SEEK_BOUNDARY
    /\ buffer' = <<>>
    /\ allParts' = NewParts
    /\ fieldInfo' = <<>>
    /\ pc' = "loop"
    /\ result' = <<>>
    /\ mark' = [s \in SEEK_BOUNDARY..AWAIT_NEXT_BOUNDARY |-> 0]
    /\ emitLog' = <<>>
    /\ UNCHANGED <<gbVars, mwVars>>

NextCalls ==
    \/ Next
    \/ Call

SpecCalls == InitCalls /\ [][NextCalls]_vars

\* The finished calls: the logged ones and, once it has finished, the current one.
FinishedCalls ==
    {callLog[k] : k \in 1..Len(callLog)}
    \cup (IF Finished
          THEN {[body |-> multipartBodyBuffer, boundary |-> boundary, pc |-> pc, result |-> result]}
          ELSE {})

\* C11: parse is a pure function of (body, boundary).  Any two calls with the
\* same arguments, whatever calls lie between them, end the same way with
\* structurally identical Part sequences, and every call starts in
\* SEEK_BOUNDARY with empty line, header, body and output accumulators.
C11_ParseIsPure ==
    /\ \A a, b \in FinishedCalls :
           (a.body = b.body /\ a.boundary = b.boundary) => (a.pc = b.pc /\ a.result = b.result)
    /\ (pc = "loop" /\ i = 0) =>
           /\ state = SEEK_BOUNDARY
           /\ lastline = <<>>
           /\ buffer = <<>>
           /\ allParts = <<>>
           /\ header = <<>> /\ info = <<>> /\ fieldInfo = <<>>

\* A call that returned Parts is repeated after a call with other arguments
\* and has returned again.
C11_Witness ==
    /\ Len(callLog) = 2
    /\ pc = "returned"
    /\ result # <<>>
    /\ callLog[1].body = multipartBodyBuffer /\ callLog[1].boundary = boundary
    /\ callLog[2].body # multipartBodyBuffer
    /\ callLog[2].pc = "returned" /\ callLog[2].result # <<>>

(***************************************************************************)
(* middleware, lines 200-255: the handler makes req.files and req.fields   *)
(* objects (lines 225-226), maps the Parts that parse returned into them   *)
(* (lines 228-238), writes the Parts with a filename to options.dest       *)
(* (lines 241-251) and calls next (line 253).  A stored value is a data    *)
(* value, a Part (the object parse returned), an array of such values, or  *)
(* a value inherited from the prototype.                                   *)
(***************************************************************************)
MaxParts == 3

\* What `if (x)` tests, undefined included.
TruthyOrUndefined(val) == IF val.t = "undefined" THEN FALSE ELSE Truthy(val)

\* isObject, line 10: typeof obj === 'object' && obj !== null.
isObject(obj) == obj.t \in {"object", "array", "buffer", "part", "Object.prototype", "Array.prototype"}

\* '__proto__', 'length', 'path', '[object Object]', 'Object.prototype.',
\* 'Array.prototype.'
StrProto == <<95, 95, 112, 114, 111, 116, 111, 95, 95>>
StrLength == <<108, 101, 110, 103, 116, 104>>
StrPath == <<112, 97, 116, 104>>
StrObjectObject == <<91, 111, 98, 106, 101, 99, 116, 32, 79, 98, 106, 101, 99, 116, 93>>
StrObjectPrototypeDot == <<79, 98, 106, 101, 99, 116, 46, 112, 114, 111, 116, 111, 116, 121, 112, 101, 46>>
StrArrayPrototypeDot == <<65, 114, 114, 97, 121, 46, 112, 114, 111, 116, 111, 116, 121, 112, 101, 46>>

\* The twelve properties of Object.prototype: 'constructor', 'toString',
\* 'valueOf', 'hasOwnProperty', 'isPrototypeOf', 'propertyIsEnumerable',
\* 'toLocaleString', '__defineGetter__', '__defineSetter__',
\* '__lookupGetter__', '__lookupSetter__' and '__proto__'.  The first eleven
\* are functions; '__proto__' is an accessor: reading it gives the prototype
\* of the object, assigning an object to it replaces that prototype.
ObjectPrototypeKeys ==
    { <<99, 111, 110, 115, 116, 114, 117, 99, 116, 111, 114>>,
      <<116, 111, 83, 116, 114, 105, 110, 103>>,
      <<118, 97, 108, 117, 101, 79, 102>>,
      <<104, 97, 115, 79, 119, 110, 80, 114, 111, 112, 101, 114, 116, 121>>,
      <<105, 115, 80, 114, 111, 116, 111, 116, 121, 112, 101, 79, 102>>,
      <<112, 114, 111, 112, 101, 114, 116, 121, 73, 115, 69, 110, 117, 109, 101, 114, 97, 98, 108, 101>>,
      <<116, 111, 76, 111, 99, 97, 108, 101, 83, 116, 114, 105, 110, 103>>,
      <<95, 95, 100, 101, 102, 105, 110, 101, 71, 101, 116, 116, 101, 114, 95, 95>>,
      <<95, 95, 100, 101, 102, 105, 110, 101, 83, 101, 116, 116, 101, 114, 95, 95>>,
      <<95, 95, 108, 111, 111, 107, 117, 112, 71, 101, 116, 116, 101, 114, 95, 95>>,
      <<95, 95, 108, 111, 111, 107, 117, 112, 83, 101, 116, 116, 101, 114, 95, 95>>,
      StrProto }

\* The function-valued properties of Array.prototype (Node.js 20):
\* 'constructor', 'at', 'concat', 'copyWithin', 'fill', 'find',
\* 'findIndex', 'findLast', 'findLastIndex', 'lastIndexOf', 'pop',
\* 'push', 'reverse', 'shift', 'unshift', 'slice', 'sort', 'splice',
\* 'includes', 'indexOf', 'join', 'keys', 'entries', 'values', 'forEach',
\* 'filter', 'flat', 'flatMap', 'map', 'every', 'some', 'reduce',
\* 'reduceRight', 'toReversed', 'toSorted', 'toSpliced', 'with',
\* 'toLocaleString', 'toString'.
ArrayPrototypeKeys ==
    { <<99, 111, 110, 115, 116, 114, 117, 99, 116, 111, 114>>,
      <<97, 116>>,
      <<99, 111, 110, 99, 97, 116>>,
      <<99, 111, 112, 121, 87, 105, 116, 104, 105, 110>>,
      <<102, 105, 108, 108>>,
      <<102, 105, 110, 100>>,
      <<102, 105, 110, 100, 73, 110, 100, 101, 120>>,
      <<102, 105, 110, 100, 76, 97, 115, 116>>,
      <<102, 105, 110, 100, 76, 97, 115, 116, 73, 110, 100, 101, 120>>,
      <<108, 97, 115, 116, 73, 110, 100, 101, 120, 79, 102>>,
      <<112, 111, 112>>,
      <<112, 117, 115, 104>>,
      <<114, 101, 118, 101, 114, 115, 101>>,
      <<115, 104, 105, 102, 116>>,
      <<117, 110, 115, 104, 105, 102, 116>>,
      <<115, 108, 105, 99, 101>>,
      <<115, 111, 114, 116>>,
      <<115, 112, 108, 105, 99, 101>>,
      <<105, 110, 99, 108, 117, 100, 101, 115>>,
      <<105, 110, 100, 101, 120, 79, 102>>,
      <<106, 111, 105, 110>>,
      <<107, 101, 121, 115>>,
      <<101, 110, 116, 114, 105, 101, 115>>,
      <<118, 97, 108, 117, 101, 115>>,
      <<102, 111, 114, 69, 97, 99, 104>>,
      <<102, 105, 108, 116, 101, 114>>,
      <<102, 108, 97, 116>>,
      <<102, 108, 97, 116, 77, 97, 112>>,
      <<109, 97, 112>>,
      <<101, 118, 101, 114, 121>>,
      <<115, 111, 109, 101>>,
      <<114, 101, 100, 117, 99, 101>>,
      <<114, 101, 100, 117, 99, 101, 82, 105, 103, 104, 116>>,
      <<116, 111, 82, 101, 118, 101, 114, 115, 101, 100>>,
      <<116, 111, 83, 111, 114, 116, 101, 100>>,
      <<116, 111, 83, 112, 108, 105, 99, 101, 100>>,
      <<119, 105, 116, 104>>,
      <<116, 111, 76, 111, 99, 97, 108, 101, 83, 116, 114, 105, 110, 103>>,
      <<116, 111, 83, 116, 114, 105, 110, 103>> }

\* proto[key] for a prototype that is Object.prototype or an array, the only
\* prototypes the objects of the handler get: an element, the length or a
\* method of the array, a method of Object.prototype, for '__proto__' the
\* prototype of the prototype (Array.prototype or null), else undefined.
\* An object without prototype inherits nothing.
InheritedFrom(proto, key) ==
    IF proto.t = "null" THEN JsUndefined
    ELSE IF proto.t = "array" /\ IsArrayIndex(key) /\ NatValue(key) < Len(proto.v)
    THEN proto.v[NatValue(key) + 1]
    ELSE IF proto.t = "array" /\ key = StrLength THEN JsNumber(NatToString(Len(proto.v)))
    ELSE IF key = StrProto THEN (IF proto.t = "array" THEN JsArrayPrototype ELSE JsNull)
    ELSE IF proto.t = "array" /\ key \in ArrayPrototypeKeys
         THEN JsFunction(StrArrayPrototypeDot \o key)
    ELSE IF key \in ObjectPrototypeKeys THEN JsFunction(StrObjectPrototypeDot \o key)
    ELSE JsUndefined

\* obj[key], obj being [own, proto]: an own property, else for '__proto__' the
\* prototype, else what the prototype gives.
PropertyGet(obj, key) ==
    IF HasProp(obj.own, key) THEN Get(obj.own, key)
    ELSE IF key = StrProto /\ obj.proto.t # "null" THEN obj.proto
    ELSE InheritedFrom(obj.proto, key)

\* o[key] for an object made by {}.
Lookup(o, key) == PropertyGet([own |-> o, proto |-> JsObjectPrototype], key)

\* obj[key] = val: an own property takes the value; assigning to '__proto__'
\* replaces the prototype when val is an object and does nothing when it is
\* a primitive value; any other key becomes an own property (the inherited
\* properties are writable data properties).
PropertySet(obj, key, val) ==
    IF ~HasProp(obj.own, key) /\ key = StrProto /\ obj.proto.t # "null"
    THEN IF val.t \in {"string", "number", "boolean", "undefined"} THEN obj
         ELSE [obj EXCEPT !.proto = val]
    ELSE [obj EXCEPT !.own = DefineProperty(obj.own, key, val)]

\* obj[key].push(val), obj[key] being an array: the array is an own property
\* or, for '__proto__', the prototype.
ArrayPush(obj, key, val) ==
    IF HasProp(obj.own, key)
    THEN [obj EXCEPT !.own = DefineProperty(obj.own, key, JsArray(Append(Get(obj.own, key).v, val)))]
    ELSE [obj EXCEPT !.proto = JsArray(Append(obj.proto.v, val))]

\* String(val) for a value JSON.parse gives, or undefined: the text of a
\* primitive value; the elements of an array joined by ',' (null and
\* undefined give nothing); '[object Object]' for an object, but a TypeError
\* for an object with an own property 'toString' (no function, and valueOf
\* gives no primitive value).
RECURSIVE ToStringValue(_), JoinValues(_, _)
ToStringValue(val) ==
    IF val.t = "undefined" THEN Ok(StrUndefined)
    ELSE IF val.t = "array" THEN JoinValues(val.v, Len(val.v))
    ELSE IF val.t = "object"
         THEN IF HasProp(val.v, <<116, 111, 83, 116, 114, 105, 110, 103>>) THEN Threw ELSE Ok(StrObjectObject)
    ELSE Ok(val.v)

\* The first n elements joined.
JoinValues(arr, n) ==
    IF n = 0 THEN Ok(<<>>)
    ELSE LET before == JoinValues(arr, n - 1)
             last == IF arr[n].t \in {"null", "undefined"} THEN Ok(<<>>) ELSE ToStringValue(arr[n])
         IN  IF ~before.ok \/ ~last.ok THEN Threw
             ELSE Ok(before.v \o (IF n > 1 THEN <<44>> ELSE <<>>) \o last.v)

\* The property key a value used as an index stands for.
ToPropertyKey(val) == ToStringValue(val)

\* The object a Part value stands for.
PartOf(part) == mwParts[part.v[1]]

\* mapFormData(destination, part, asFile), lines 203-213: the destination
\* after the call, or the TypeError of part.name used as a key.
MapFormData(destination, part, asFile) ==
    LET partData == IF asFile THEN part ELSE Lookup(PartOf(part), StrData)
        key == ToPropertyKey(Lookup(PartOf(part), StrName))
        current == PropertyGet(destination, key.v)
    IN  IF ~key.ok THEN Threw
        ELSE IF current.t = "array" THEN Ok(ArrayPush(destination, key.v, partData))
        ELSE IF ~TruthyOrUndefined(current) THEN Ok(PropertySet(destination, key.v, partData))
        ELSE Ok(PropertySet(destination, key.v, JsArray(<<current, partData>>)))

\* 'Content-Disposition: form-data; name="constructor"'
HConstructor == <<67, 111, 110, 116, 101, 110, 116, 45, 68, 105, 115, 112, 111, 115, 105, 116, 105, 111, 110, 58, 32, 102, 111, 114, 109, 45, 100, 97, 116, 97, 59, 32, 110, 97, 109, 101, 61, 34, 99, 111, 110, 115, 116, 114, 117, 99, 116, 111, 114, 34>>
\* 'Content-Disposition: form-data; name="__proto__"'
HProto == <<67, 111, 110, 116, 101, 110, 116, 45, 68, 105, 115, 112, 111, 115, 105, 116, 105, 111, 110, 58, 32, 102, 111, 114, 109, 45, 100, 97, 116, 97, 59, 32, 110, 97, 109, 101, 61, 34, 95, 95, 112, 114, 111, 116, 111, 95, 95, 34>>
\* 'Content-Disposition: form-data; name={"toString":1}'
HObjectName == <<67, 111, 110, 116, 101, 110, 116, 45, 68, 105, 115, 112, 111, 115, 105, 116, 105, 111, 110, 58, 32, 102, 111, 114, 109, 45, 100, 97, 116, 97, 59, 32, 110, 97, 109, 101, 61, 123, 34, 116, 111, 83, 116, 114, 105, 110, 103, 34, 58, 49, 125>>
\* 'Content-Disposition: form-data; filename="a.txt"'   (no name segment)
HNoName == <<67, 111, 110, 116, 101, 110, 116, 45, 68, 105, 115, 112, 111, 115, 105, 116, 105, 111, 110, 58, 32, 102, 111, 114, 109, 45, 100, 97, 116, 97, 59, 32, 102, 105, 108, 101, 110, 97, 109, 101, 61, 34, 97, 46, 116, 120, 116, 34>>

\* The Part process assembles from a text field and from a file: the payload
\* reaches process without the CRLF that ends it (line 149).
FieldPartOf(h, value) == Process([header |-> h, info |-> <<>>, part |-> <<>>, fieldInfo |-> value]).v
FilePartOf(h, ct, payload) == Process([header |-> h, info |-> ct, part |-> payload, fieldInfo |-> <<>>]).v

\* Parts parse returns: the fields foo=bar, foo=hello, 123=bar,
\* constructor=bar, __proto__=bar and one named by an object, the file upload
\* with two payloads, and a Part with a filename and without a name.
PartKinds ==
    { FieldPartOf(HField, StrBar),
      FieldPartOf(HField, StrHello),
      FieldPartOf(HNumber, StrBar),
      FieldPartOf(HConstructor, StrBar),
      FieldPartOf(HProto, StrBar),
      FieldPartOf(HObjectName, StrBar),
      FilePartOf(HFile, CType, StrHello),
      FilePartOf(HFile, CType, StrHelloWorld),
      FieldPartOf(HNoName, StrBar) }

\* req.files and req.fields as the handler finds them: not set, or set by an
\* earlier handler to null or to an object made by {} that holds a value, an
\* array or a Part of an earlier request.
PriorMaps ==
    { <<JsUndefined, JsUndefined>>,
      <<JsNull, JsObject(<<<<StrFoo, JsString(StrBar)>>>>)>>,
      <<JsObject(<<<<StrUpload, JsObject(FilePartOf(HFile, CType, StrHello))>>>>),
        JsObject(<<<<StrFoo, JsArray(<<JsString(StrBar), JsString(StrHello)>>)>>>>)>> }

\* options.dest: not set, or '/tmp'.
DestOptions == {JsUndefined, JsString(<<47, 116, 109, 112>>)}

\* uniqueFilename(options.dest, UPLOAD_PREFIX), line 244: the directory, '/',
\* the prefix, '-' and eight hexadecimal digits drawn at random.
UniqueSlugs == {<<48, 97, 49, 98, 50, 99, 51, 100>>, <<52, 101, 53, 102, 54, 97, 55, 98>>}
UniqueFilename(dir, slug) == dir \o <<47>> \o UPLOAD_PREFIX \o <<Dash>> \o slug

\* The UTF-8 bytes of the code unit at index k of a string: a surrogate pair
\* gives four bytes at its first unit and none at its second, a lone
\* surrogate the bytes of U+FFFD.
Utf8At(s, k) ==
    LET c == s[k]
        high(x) == x \in 55296..56319
        low(x) == x \in 56320..57343
    IN  IF c < 128 THEN <<c>>
        ELSE IF c < 2048 THEN <<192 + (c \div 64), 128 + (c % 64)>>
        ELSE IF high(c) /\ k < Len(s) /\ low(s[k + 1])
             THEN LET p == 65536 + (c - 55296) * 1024 + (s[k + 1] - 56320)
                  IN  <<240 + (p \div 262144), 128 + ((p \div 4096) % 64), 128 + ((p \div 64) % 64), 128 + (p % 64)>>
        ELSE IF low(c) /\ k > 1 /\ high(s[k - 1]) THEN <<>>
        ELSE IF high(c) \/ low(c) THEN <<239, 191, 189>>
        ELSE <<224 + (c \div 4096), 128 + ((c \div 64) % 64), 128 + (c % 64)>>

\* The UTF-8 bytes of the code units a..b of a string.
RECURSIVE Utf8Between(_, _, _)
Utf8Between(s, a, b) ==
    IF a > b THEN <<>>
    ELSE IF a = b THEN Utf8At(s, a)
    ELSE Utf8Between(s, a, (a + b) \div 2) \o Utf8Between(s, (a + b) \div 2 + 1, b)

\* The bytes fs.writeFileSync writes for data: those of a Buffer, the UTF-8
\* encoding of a string.
FileBytes(data) == IF data.t = "buffer" THEN data.v ELSE Utf8Between(data.v, 1, Len(data.v))

\* fs.writeFileSync(path, data) that succeeds: the file is made or replaced.
WriteFileSync(files, filepath, data) ==
    {f \in files : f.path # filepath} \cup {[path |-> filepath, data |-> FileBytes(data)]}

\* The files fs.writeFileSync(path, data) can leave when it throws: what
\* there was, when the file could not be opened (the directory is missing,
\* say); else the file has been made, or emptied if it was there, and holds
\* the bytes written before the error: none, some, or all of them when the
\* error comes with the closing of the file.
WriteFileSyncThrows(files, filepath, data) ==
    {files} \cup
    { {f \in files : f.path # filepath}
          \cup {[path |-> filepath, data |-> SubSeq(FileBytes(data), 1, n)]} :
      n \in 0..Len(FileBytes(data)) }

\* Line 218 has returned the Parts; req.files and req.fields are what the
\* request carries.
InitMW ==
    /\ ParseIdle
    /\ GbIdle
    /\ NoCalls
    /\ mwParts \in SeqsUpTo(PartKinds, MaxParts)
    /\ mwI = 0
    /\ prior \in PriorMaps
    /\ reqFiles = prior[1]
    /\ reqFields = prior[2]
    /\ filesProto = JsObjectPrototype
    /\ fieldsProto = JsObjectPrototype
    /\ optionsDest \in DestOptions
    /\ disk = {}
    /\ mwPc = "start"

\* Lines 225-226: an object is kept, anything else is replaced by {}.
MakeMaps ==
    /\ mwPc = "start"
    /\ reqFiles' = IF isObject(reqFiles) THEN reqFiles ELSE JsObject(<<>>)
    /\ reqFields' = IF isObject(reqFields) THEN reqFields ELSE JsObject(<<>>)
    /\ mwPc' = "forEach"
    /\ UNCHANGED <<mwParts, mwI, filesProto, fieldsProto, prior, optionsDest, disk>>
    /\ UNCHANGED <<parseVars, gbVars, callVars>>

\* The Part of the current iteration of forEach, lines 228 and 242.
mwPart == mwParts[mwI + 1]

InForEach == mwPc = "forEach" /\ mwI < Len(mwParts)

\* Lines 229-231: a Part without a (truthy) name is skipped.
SkipPart ==
    /\ InForEach
    /\ ~TruthyOrUndefined(Lookup(mwPart, StrName))
    /\ mwI' = mwI + 1
    /\ UNCHANGED <<mwParts, reqFiles, reqFields, filesProto, fieldsProto, prior, optionsDest, disk, mwPc>>
    /\ UNCHANGED <<parseVars, gbVars, callVars>>

\* Lines 233-234: a named Part with a filename goes to req.files; a name that
\* is no property key ends the handler with a TypeError.
MapFile ==
    /\ InForEach
    /\ TruthyOrUndefined(Lookup(mwPart, StrName))
    /\ TruthyOrUndefined(Lookup(mwPart, StrFilename))
    /\ LET r == MapFormData([own |-> reqFiles.v, proto |-> filesProto], JsPart(mwI + 1), TRUE)
       IN  IF r.ok
           THEN /\ reqFiles' = JsObject(r.v.own)
                /\ filesProto' = r.v.proto
                /\ mwI' = mwI + 1
                /\ mwPc' = mwPc
           ELSE /\ mwPc' = "threw"
                /\ UNCHANGED <<reqFiles, filesProto, mwI>>
    /\ UNCHANGED <<mwParts, reqFields, fieldsProto, prior, optionsDest, disk>>
    /\ UNCHANGED <<parseVars, gbVars, callVars>>

\* Lines 235-236: a named Part without a filename goes to req.fields.
MapField ==
    /\ InForEach
    /\ TruthyOrUndefined(Lookup(mwPart, StrName))
    /\ ~TruthyOrUndefined(Lookup(mwPart, StrFilename))
    /\ LET r == MapFormData([own |-> reqFields.v, proto |-> fieldsProto], JsPart(mwI + 1), FALSE)
       IN  IF r.ok
           THEN /\ reqFields' = JsObject(r.v.own)
                /\ fieldsProto' = r.v.proto
                /\ mwI' = mwI + 1
                /\ mwPc' = mwPc
           ELSE /\ mwPc' = "threw"
                /\ UNCHANGED <<reqFields, fieldsProto, mwI>>
    /\ UNCHANGED <<mwParts, reqFiles, filesProto, prior, optionsDest, disk>>
    /\ UNCHANGED <<parseVars, gbVars, callVars>>

\* Lines 241-242: the first forEach is over and options.dest is set, the
\* second forEach starts.
StartWriting ==
    /\ mwPc = "forEach"
    /\ mwI = Len(mwParts)
    /\ TruthyOrUndefined(optionsDest)
    /\ mwPc' = "write"
    /\ mwI' = 0
    /\ UNCHANGED <<mwParts, reqFiles, reqFields, filesProto, fieldsProto, prior, optionsDest, disk>>
    /\ UNCHANGED <<parseVars, gbVars, callVars>>

InWriting == mwPc = "write" /\ mwI < Len(mwParts)

\* Line 243: a Part without a (truthy) filename is not written.
SkipWrite ==
    /\ InWriting
    /\ ~TruthyOrUndefined(Lookup(mwPart, StrFilename))
    /\ mwI' = mwI + 1
    /\ UNCHANGED <<mwParts, reqFiles, reqFields, filesProto, fieldsProto, prior, optionsDest, disk, mwPc>>
    /\ UNCHANGED <<parseVars, gbVars, callVars>>

\* The Parts after line 246 has set the path of the current one.
WithPath(filepath) ==
    [mwParts EXCEPT ![mwI + 1] = DefineProperty(@, StrPath, JsString(filepath))]

\* Lines 244-248: a Part with a filename, named or not, gets a path and its
\* data is written there.
WriteFile ==
    /\ InWriting
    /\ TruthyOrUndefined(Lookup(mwPart, StrFilename))
    /\ \E slug \in UniqueSlugs :
           LET filepath == UniqueFilename(optionsDest.v, slug)
           IN  /\ mwParts' = WithPath(filepath)
               /\ disk' = WriteFileSync(disk, filepath, Lookup(mwPart, StrData))
    /\ mwI' = mwI + 1
    /\ UNCHANGED <<reqFiles, reqFields, filesProto, fieldsProto, prior, optionsDest, mwPc>>
    /\ UNCHANGED <<parseVars, gbVars, callVars>>

\* Lines 246-248 when fs.writeFileSync throws: the Part has its path, the
\* file is untouched, or made and holding the bytes written so far; the
\* handler ends with the error and next is not called.
WriteThrows ==
    /\ InWriting
    /\ TruthyOrUndefined(Lookup(mwPart, StrFilename))
    /\ \E slug \in UniqueSlugs :
           /\ mwParts' = WithPath(UniqueFilename(optionsDest.v, slug))
           /\ disk' \in WriteFileSyncThrows(disk, UniqueFilename(optionsDest.v, slug),
                                            Lookup(mwPart, StrData))
    /\ mwPc' = "threw"
    /\ UNCHANGED <<mwI, reqFiles, reqFields, filesProto, fieldsProto, prior, optionsDest>>
    /\ UNCHANGED <<parseVars, gbVars, callVars>>

\* Line 253: both loops are over, next() is called.
CallNext ==
    /\ mwI = Len(mwParts)
    /\ \/ mwPc = "forEach" /\ ~TruthyOrUndefined(optionsDest)
       \/ mwPc = "write"
    /\ mwPc' = "done"
    /\ UNCHANGED <<mwParts, mwI, reqFiles, reqFields, filesProto, fieldsProto, prior, optionsDest, disk>>
    /\ UNCHANGED <<parseVars, gbVars, callVars>>

NextMW ==
    \/ MakeMaps
    \/ SkipPart
    \/ MapFile
    \/ MapField
    \/ StartWriting
    \/ SkipWrite
    \/ WriteFile
    \/ WriteThrows
    \/ CallNext

SpecMW == InitMW /\ [][NextMW]_vars

\* Equality of stored values.
SameValue(a, b) ==
    /\ a.t = b.t
    /\ IF a.t = "array"
       THEN /\ Len(a.v) = Len(b.v)
            /\ \A k \in 1..Len(a.v) : a.v[k].t = b.v[k].t /\ a.v[k].v = b.v[k].v
       ELSE a.v = b.v

\* The Part has a name, and a filename or none.
Named(part) == HasProp(part, StrName) /\ Truthy(Get(part, StrName))
IsFile(part) == HasProp(part, StrFilename) /\ Truthy(Get(part, StrFilename))

\* The values the first n Parts contribute under key to req.files (asFile)
\* or to req.fields, in arrival order.
RECURSIVE ValuesOf(_, _, _)
ValuesOf(key, asFile, n) ==
    IF n = 0 THEN <<>>
    ELSE LET part == mwParts[n]
             earlier == ValuesOf(key, asFile, n - 1)
         IN  IF Named(part) /\ ToPropertyKey(Get(part, StrName)).v = key /\ IsFile(part) = asFile
             THEN Append(earlier, IF asFile THEN JsPart(n) ELSE Get(part, StrData))
             ELSE earlier

\* The destination holds under key exactly the values: nothing for none, the
\* value itself for one, the array of them for more.
Holds(destination, key, values) ==
    CASE Len(values) = 0 -> ~HasProp(destination, key)
      [] Len(values) = 1 -> HasProp(destination, key) /\ SameValue(Get(destination, key), values[1])
      [] OTHER           -> HasProp(destination, key) /\ SameValue(Get(destination, key), JsArray(values))

\* The names in play: those of the Parts and those of the stored entries.
NamesInPlay ==
    {ToPropertyKey(Get(mwParts[k], StrName)).v : k \in {n \in 1..Len(mwParts) : Named(mwParts[n])}}
    \cup {reqFiles.v[k][1] : k \in 1..Len(reqFiles.v)}
    \cup {reqFields.v[k][1] : k \in 1..Len(reqFields.v)}

\* The request came without req.files and req.fields.
FreshMaps == prior = <<JsUndefined, JsUndefined>>

\* C12: after forEach has run over the Parts of a request that came without
\* req.files and req.fields, for every name req.files (Parts with a
\* filename) and req.fields (the others) hold under that name all the values
\* of the Parts with that name, in arrival order: the value itself when the
\* name occurred once, an array when it repeated; Parts without a name add
\* nothing.
C12_MapsHoldAllValues ==
    (mwPc = "done" /\ FreshMaps) =>
        \A key \in NamesInPlay :
            /\ Holds(reqFiles.v, key, ValuesOf(key, TRUE, Len(mwParts)))
            /\ Holds(reqFields.v, key, ValuesOf(key, FALSE, Len(mwParts)))

(***************************************************************************)
(* Properties of the scanner's steps.                                      *)
(***************************************************************************)
\* The edges of the scanner.
Edges ==
    { <<SEEK_BOUNDARY, READ_HEADER>>, <<READ_HEADER, READ_INFO>>, <<READ_INFO, READ_FIELD_LINE>>,
      <<READ_FIELD_LINE, READ_BODY>>, <<READ_BODY, AWAIT_NEXT_BOUNDARY>>,
      <<AWAIT_NEXT_BOUNDARY, READ_HEADER>> }

\* A step takes the edge READ_BODY -> AWAIT_NEXT_BOUNDARY.
EmitEdge == state = READ_BODY /\ state' = AWAIT_NEXT_BOUNDARY

\* A step changes the state along an edge only, on the LF of a CRLF pair
\* unless the edge is the emitting one, and the output grows by exactly one
\* Part on the emitting edge and not at all on any other step.
EdgeStep ==
    /\ state' # state =>
          /\ <<state, state'>> \in Edges
          /\ i' = i + 1
          /\ ~EmitEdge => (oneByte = LF /\ prevByte = CR)
    /\ IF EmitEdge
       THEN Len(allParts') = Len(allParts) + 1 /\ SubSeq(allParts', 1, Len(allParts)) = allParts
       ELSE allParts' = allParts

\* C13: the scanner starts in SEEK_BOUNDARY and its state changes only along
\* SEEK_BOUNDARY -> READ_HEADER -> READ_INFO -> READ_FIELD_LINE -> READ_BODY ->
\* AWAIT_NEXT_BOUNDARY -> READ_HEADER (SEEK_BOUNDARY is never re-entered);
\* every edge but READ_BODY -> AWAIT_NEXT_BOUNDARY is taken on the LF of a CRLF
\* pair; exactly one Part is emitted on READ_BODY -> AWAIT_NEXT_BOUNDARY and
\* none on any other step.
C13_StateEdges == (state = SEEK_BOUNDARY) /\ [][EdgeStep]_vars

\* The cycle has been walked twice: two Parts emitted and the scanner back in
\* READ_HEADER after the second.
C13_Witness ==
    /\ Len(emitLog) = 2
    /\ Len(allParts) = 2
    /\ state = READ_HEADER
    /\ mark[READ_HEADER] > emitLog[2].at

\* The index after the last CRLF pair that ends at or before n, 0 if none.
PrevCRLF(n) ==
    LET ends == {k \in 2..n : multipartBodyBuffer[k - 1] = CR /\ multipartBodyBuffer[k] = LF}
    IN  IF ends = {} THEN 0 ELSE CHOOSE k \in ends : \A m \in ends : m <= k

\* The text of the input from index from + 1 up to the CRLF pair that ends at to.
LineBetween(from, to) == ToString(SubSeq(multipartBodyBuffer, from + 1, to - 2))

\* C14: at every CRLF-triggered transition the line compared or stored is
\* exactly the bytes between the previous CRLF (or the start) and this CRLF, a
\* lone CR or LF inside the line included: the line compared on leaving
\* SEEK_BOUNDARY, and the header, info and field lines stored on leaving
\* READ_HEADER, READ_INFO and READ_FIELD_LINE (the header after
\* AWAIT_NEXT_BOUNDARY holding only the line that follows the boundary line).
C14_LinesAreInputBytes ==
    /\ (emitLog = <<>> /\ state \in READ_HEADER..READ_BODY) =>
           LineBetween(PrevCRLF(mark[READ_HEADER] - 2), mark[READ_HEADER]) = Delim(boundary)
    /\ state \in READ_INFO..READ_BODY =>
           header = LineBetween(mark[READ_HEADER], mark[READ_INFO])
    /\ state \in READ_FIELD_LINE..READ_BODY =>
           info = LineBetween(mark[READ_INFO], mark[READ_FIELD_LINE])
    /\ state = READ_BODY =>
           fieldInfo = LineBetween(mark[READ_FIELD_LINE], mark[READ_BODY])

\* C15: for a well-formed body closed by '--' + boundary + '--' CRLF, the
\* closing boundary is handled like an intermediate one: the last Part is
\* emitted when '--' + boundary is matched, the scanner moves from
\* AWAIT_NEXT_BOUNDARY to READ_HEADER on the closing CRLF, and parse returns at
\* the end of input with no further Part and no failure (stated for a
\* non-empty boundary).
C15_ClosingBoundaryEndsLastPart ==
    (Finished /\ boundary # <<>>) =>
        \A q \in SegSeqs(MaxSegs) :
            WellFormed(q) =>
                /\ pc = "returned"
                /\ state = READ_HEADER
                /\ mark[READ_HEADER] = Len(multipartBodyBuffer)
                /\ emitLog # <<>>
                /\ emitLog[Len(emitLog)].at = Len(multipartBodyBuffer) - 4
                /\ Len(result) = Len(emitLog)

\* A step of READ_BODY on which the candidate line has grown past the
\* boundary length + 4, lines 142-145.
ClearStep == InLoop /\ state = READ_BODY /\ Len(Appended) > Len(boundary) + 4

\* The last n bytes of the body accumulator hold no CR and no LF.
NoNewlineInLast(n) ==
    /\ Len(buffer) >= n
    /\ \A k \in (Len(buffer) - n + 1)..Len(buffer) : buffer[k] # CR /\ buffer[k] # LF

\* C16: while the scanner is in READ_BODY, after every processed byte the
\* candidate line holds at most boundary length + 4 bytes, and a step on
\* which it grows past that leaves it empty.
C16_WindowBounded ==
    /\ [](state = READ_BODY => Len(lastline) <= Len(boundary) + 4)
    /\ [][ClearStep => lastline' = emptyBuffer]_vars

\* The candidate line has just been cleared in the middle of a payload line:
\* more than boundary length + 4 bytes without a newline were read and the
\* line is empty.
C16_Witness ==
    /\ state = READ_BODY
    /\ boundary # <<>>
    /\ lastline = <<>>
    /\ NoNewlineInLast(Len(boundary) + 5)

\* C17: clearing the candidate line discards no body bytes.  In READ_BODY the
\* body accumulator is exactly the input bytes read since the state was
\* entered, CR and LF included, in input order, and a clearing step appends
\* its byte like any other and leaves headerLine, infoLine, fieldLine, the
\* state and the emitted Parts unchanged.
C17_ClearKeepsBody ==
    /\ [](state = READ_BODY => buffer = SubSeq(multipartBodyBuffer, mark[READ_BODY] + 1, i))
    /\ [][ClearStep => /\ buffer' = Append(buffer, oneByte)
                       /\ UNCHANGED <<header, info, fieldInfo, state, allParts>>]_vars

\* A payload line longer than the window has been read to its CRLF: the
\* window was cleared on the way and the body accumulator holds the line and
\* the CRLF.
C17_Witness ==
    /\ state = READ_BODY
    /\ boundary # <<>>
    /\ Len(buffer) >= Len(boundary) + 7
    /\ buffer[Len(buffer) - 1] = CR /\ buffer[Len(buffer)] = LF
    /\ \A k \in 1..(Len(boundary) + 5) : buffer[k] # CR /\ buffer[k] # LF

\* Every CR of the body is followed by LF and every LF preceded by CR.
NoLoneNewline ==
    \A k \in 1..Len(multipartBodyBuffer) :
        /\ multipartBodyBuffer[k] = CR => (k < Len(multipartBodyBuffer) /\ multipartBodyBuffer[k + 1] = LF)
        /\ multipartBodyBuffer[k] = LF => (k > 1 /\ multipartBodyBuffer[k - 1] = CR)

\* C18: in READ_BODY a boundary is detected only at the start of a line.  At
\* every READ_BODY -> AWAIT_NEXT_BOUNDARY transition the matched bytes
\* '--' + boundary are contiguous in the input and come right after a CRLF
\* pair or at the first byte of the body; an occurrence in the middle of a
\* payload line never ends the part (stated for a non-empty boundary and a
\* body without lone CR or LF).
C18_BoundaryOnlyAtLineStart ==
    (boundary # <<>> /\ NoLoneNewline) =>
        \A k \in 1..Len(emitLog) :
            LET at == emitLog[k].at
                start == at - Len(Delim(boundary))
            IN  /\ start >= emitLog[k].stored[3]
                /\ SubSeq(multipartBodyBuffer, start + 1, at) = Delim(boundary)
                /\ \/ start = emitLog[k].stored[3]
                   \/ /\ start >= 2
                      /\ multipartBodyBuffer[start - 1] = CR
                      /\ multipartBodyBuffer[start] = LF

\* The text the scanner collects from the input bytes from + 1 .. to - 2 (to
\* being the index after a CRLF pair): the bytes that are neither CR nor LF.
Collected(from, to) ==
    ToString(SelectSeq(SubSeq(multipartBodyBuffer, from + 1, to - 2), LAMBDA c : c # CR /\ c # LF))

\* C19: every emitted Part is assembled only from lines of its own segment.
\* The headerLine, infoLine and fieldLine handed to the assembler at a
\* boundary match were stored, in this order, after the previous Part was
\* emitted (after the opening boundary for the first Part), and each holds
\* only input bytes read since then: nothing stored for an earlier segment
\* is carried into a later Part.
C19_PartFromOwnSegment ==
    \A k \in 1..Len(emitLog) :
        LET e == emitLog[k]
            since == IF k = 1 THEN e.opened ELSE emitLog[k - 1].at
        IN  /\ since <= e.opened
            /\ e.opened < e.stored[1]
            /\ e.stored[1] < e.stored[2]
            /\ e.stored[2] < e.stored[3]
            /\ e.stored[3] <= e.at
            /\ k = 1 => e.opened > 0
            /\ e.raw.header = Collected(since, e.stored[1])
            /\ e.raw.info = Collected(e.stored[1], e.stored[2])
            /\ e.raw.fieldInfo = Collected(e.stored[2], e.stored[3])

\* A file Part has been emitted after a text-field Part: its field line is
\* empty although the one of the Part before was not.
C19_Witness ==
    /\ Len(emitLog) = 2
    /\ emitLog[1].raw.fieldInfo # <<>>
    /\ emitLog[2].raw.fieldInfo = <<>>
    /\ emitLog[1].raw.info = <<>>
    /\ emitLog[2].raw.info # <<>>

=============================================================================
